---- MODULE Spec2Model ----
(***************************************************************************)
(* Model of the clipboard edit engine of clipo (src/clipboardMonitor.ts):  *)
(* the polling tick (checkClipboard), the pattern classifier               *)
(* (isFileReplacementPattern, isSearchReplacePattern, parseFileContent),   *)
(* the path resolver (isPathSafe) and the two edit appliers                *)
(* (processSearchReplace, processCompleteFileReplacement).                 *)
(*                                                                         *)
(* Strings are sequences of one-character strings, so that split, trim,    *)
(* indexOf, substring and replace are computed as JavaScript computes them.*)
(***************************************************************************)
EXTENDS Integers, Sequences, FiniteSets, TLC

VARIABLES
    options,               \* constructor argument: [projectDir, verbose]
    isRunning,             \* ClipboardMonitor.isRunning
    abortController,       \* ClipboardMonitor.abortController: the controller made by
                           \* the latest start(), 0 while there is none
    abortedSignals,        \* the controllers whose signal is aborted
    loops,                 \* the position of the loop of each call of start()
    signalListeners,       \* the signal listeners installed: <<signal, loop>> for
                           \* the handleShutdown of the start() that runs the loop
    cancelled,             \* the loops that were running when stop() last took effect
    pollFailed,            \* whether a call failed in some poll made so far
    baseProjectDirAbs,     \* ClipboardMonitor.baseProjectDirAbs, Null before start()
    lastClipboardContent,  \* ClipboardMonitor.lastClipboardContent
    fs,                    \* the disk: absolute path of a file |-> its content
    dirs,                  \* the disk: set of existing directories
    ops,                   \* filesystem calls made by the last poll, in order
    log,                   \* console messages printed by the last poll, in order
    tick,                  \* what the last poll read and how it was interpreted
    polls,                 \* number of polls performed so far
    directory,             \* the directory detectProjectType is called on
    fsCondition,           \* which calls the operating system refuses there
    rulesTable,            \* PROJECT_DETECTION_RULES: the names of the rules in the
                           \* order the array holds them
    runs,                  \* number of calls of detectProjectType made so far
    outcome,               \* what the last call of detectProjectType yielded
    firstOutcome,          \* what the first call of detectProjectType yielded
    parsedConfig,          \* the configuration parseConfigFile made of the file
    typesGiven,            \* the list of project types detected
    denoJson,              \* whether deno.json or deno.jsonc exists
    ignorePatterns,        \* what getDefaultIgnorePatterns(typesGiven) yielded
    config,                \* the configuration loadConfig returns
    called                 \* which of the two have been called

monitorVars == <<options, isRunning, abortController, abortedSignals, loops,
                 signalListeners, cancelled, pollFailed, baseProjectDirAbs,
                 lastClipboardContent, fs, dirs, ops, log, tick, polls>>

ignoreVars == <<parsedConfig, typesGiven, denoJson, ignorePatterns, config, called>>

detectVars == <<directory, fsCondition, rulesTable, runs, outcome, firstOutcome,
                ignoreVars>>

vars == <<monitorVars, detectVars>>

(***************************************************************************)
(* Bounds of the model.                                                    *)
(***************************************************************************)
MaxPolls == 2
MaxStarts == 2
MaxRuns == 2

Null == "null"

(***************************************************************************)
(* Characters and literals.                                                *)
(***************************************************************************)
NL == "\n"
SP == " "
Whitespace == {SP, NL}

EmptyStr == << >>
SLASH == <<"/">>
DOTDOT == <<".", ".">>
DOT == <<".">>
\* the backquote character (a TLA+ string cannot hold it literally)
BQ == "bq"
FENCE == <<BQ, BQ, BQ>>
MARKER == <<"/", "/">>
SEARCH_TOKEN == <<"-","-","-","-","-","-","-"," ","S","E","A","R","C","H">>
SEPARATOR_TOKEN == <<"=","=","=","=","=","=","=">>
REPLACE_TOKEN == <<"+","+","+","+","+","+","+"," ","R","E","P","L","A","C","E">>

(***************************************************************************)
(* JavaScript string primitives.                                           *)
(***************************************************************************)
\* s.startsWith(t)
StartsWith(s, t) == Len(s) >= Len(t) /\ SubSeq(s, 1, Len(t)) = t

\* s.indexOf(t): 0-based position of the first occurrence of t, -1 if none
IndexOf(s, t) ==
    LET last == Len(s) - Len(t)
        scan[i \in 0..(last + 1)] ==
            IF i > last THEN -1
            ELSE IF SubSeq(s, i + 1, i + Len(t)) = t THEN i
            ELSE scan[i + 1]
    IN IF last < 0 THEN -1 ELSE scan[0]

\* s.includes(t)
Includes(s, t) == IndexOf(s, t) # -1

\* s.trimStart(), s.trimEnd(), s.trim()
TrimStart(s) ==
    LET first[i \in 1..(Len(s) + 1)] ==
            IF i > Len(s) THEN i
            ELSE IF s[i] \notin Whitespace THEN i
            ELSE first[i + 1]
    IN SubSeq(s, first[1], Len(s))

TrimEnd(s) ==
    LET last[i \in 0..Len(s)] ==
            IF i = 0 THEN 0
            ELSE IF s[i] \notin Whitespace THEN i
            ELSE last[i - 1]
    IN SubSeq(s, 1, last[Len(s)])

Trim(s) == TrimEnd(TrimStart(s))

\* s.substring(a, b): both indices clamped to 0..length, swapped when a > b
Substring(s, a, b) ==
    LET clamp(n) == IF n < 0 THEN 0 ELSE IF n > Len(s) THEN Len(s) ELSE n
        ca == clamp(a)
        cb == clamp(b)
        from == IF ca <= cb THEN ca ELSE cb
        to == IF ca <= cb THEN cb ELSE ca
    IN SubSeq(s, from + 1, to)

\* s.split(sep) for a one-character separator: always at least one piece
Split(s, sep) ==
    LET \* the pieces of the first i characters of s, the last one still open
        pieces[i \in 0..Len(s)] ==
            IF i = 0 THEN <<EmptyStr>>
            ELSE LET prev == pieces[i - 1]
                 IN IF s[i] = sep THEN Append(prev, EmptyStr)
                    ELSE [prev EXCEPT ![Len(prev)] = @ \o <<s[i]>>]
    IN pieces[Len(s)]

\* pieces.join(sep)
Join(pieces, sep) ==
    LET joined[k \in 0..Len(pieces)] ==
            IF k = 0 THEN EmptyStr
            ELSE IF k = 1 THEN pieces[1]
            ELSE joined[k - 1] \o sep \o pieces[k]
    IN joined[Len(pieces)]

\* pieces.slice(1)
Slice1(pieces) == IF Len(pieces) = 0 THEN << >> ELSE Tail(pieces)

\* s.replace(/^FENCE/, ""): drops one leading fence, if there is one
StripFence(s) == IF StartsWith(s, FENCE) THEN SubSeq(s, 4, Len(s)) ELSE s

\* s.replace(/^\/\/\s*/, ""): drops a leading '//' and the whitespace after it
StripMarker(s) ==
    IF ~StartsWith(s, MARKER) THEN s
    ELSE TrimStart(SubSeq(s, 3, Len(s)))

\* GetSubstitution of String.prototype.replace for a string pattern (no
\* capture groups): $$ is a dollar, $& the match, $ and a backquote the text
\* before the match, $ and a quote the text after it; any other character
\* stands for itself.
GetSubstitution(repl, matched, before, after) ==
    LET special(i) == repl[i] = "$" /\ i < Len(repl)
                      /\ repl[i + 1] \in {"$", "&", BQ, "'"}
        \* the expansion of repl from position i on
        expand[i \in 1..(Len(repl) + 1)] ==
            IF i > Len(repl) THEN EmptyStr
            ELSE IF special(i)
            THEN (CASE repl[i + 1] = "$" -> <<"$">>
                    [] repl[i + 1] = "&" -> matched
                    [] repl[i + 1] = BQ -> before
                    [] repl[i + 1] = "'" -> after) \o expand[i + 2]
            ELSE <<repl[i]>> \o expand[i + 1]
    IN expand[1]

\* s.replace(pattern, repl) with a string pattern: first occurrence only
StringReplace(s, pattern, repl) ==
    LET pos == IndexOf(s, pattern)
    IN IF pos = -1 THEN s
       ELSE LET before == SubSeq(s, 1, pos)
                after == SubSeq(s, pos + Len(pattern) + 1, Len(s))
            IN before \o GetSubstitution(repl, pattern, before, after) \o after

(***************************************************************************)
(* POSIX path functions of the Deno standard library (path/mod.ts), which  *)
(* clipboardMonitor.ts imports: isAbsolute, normalize, resolve, relative,  *)
(* dirname.                                                                *)
(***************************************************************************)
\* the process's working directory, Deno.cwd()
Cwd == <<"/", "p">>

\* the non-empty pieces of a path between its separators
Segments(path) == SelectSeq(Split(path, "/"), LAMBDA seg : seg # EmptyStr)

isAbsolute(path) == Len(path) > 0 /\ path[1] = "/"

\* normalizeString: drops '.' and empty segments, lets '..' cancel the segment
\* before it; above the start a '..' is kept only if allowAboveRoot
NormalizeSegments(segs, allowAboveRoot) ==
    LET acc[k \in 0..Len(segs)] ==
            IF k = 0 THEN << >>
            ELSE LET seg == segs[k]
                     prev == acc[k - 1]
                 IN IF seg = DOT THEN prev
                    ELSE IF seg = DOTDOT
                    THEN IF Len(prev) > 0 /\ prev[Len(prev)] # DOTDOT
                         THEN SubSeq(prev, 1, Len(prev) - 1)
                         ELSE IF allowAboveRoot THEN Append(prev, DOTDOT) ELSE prev
                    ELSE Append(prev, seg)
    IN acc[Len(segs)]

normalizeString(path, allowAboveRoot) ==
    Join(NormalizeSegments(Segments(path), allowAboveRoot), SLASH)

\* normalize, once normalizeString has answered n on the path
NormalizeEnd(path, n) ==
    LET abs == isAbsolute(path)
        trailingSeparator == path[Len(path)] = "/"
        n2 == IF Len(n) = 0 /\ ~abs THEN DOT ELSE n
        n3 == IF Len(n2) > 0 /\ trailingSeparator THEN n2 \o SLASH ELSE n2
    IN IF abs THEN SLASH \o n3 ELSE n3

normalize(path) ==
    IF Len(path) = 0 THEN DOT
    ELSE NormalizeEnd(path, normalizeString(path, ~isAbsolute(path)))

\* resolve(...pathSegments): right to left until an absolute path is met, the
\* working directory standing before the first argument
ResolveFrom(pathSegments) ==
    LET arg(i) == IF i >= 1 THEN pathSegments[i] ELSE Cwd
        \* the state of the loop once argument i has been taken in
        step[i \in 0..(Len(pathSegments) + 1)] ==
            IF i = Len(pathSegments) + 1
            THEN [path |-> EmptyStr, absolute |-> FALSE]
            ELSE LET after == step[i + 1]
                 IN IF after.absolute \/ Len(arg(i)) = 0 THEN after
                    ELSE [path |-> arg(i) \o SLASH \o after.path,
                          absolute |-> isAbsolute(arg(i))]
    IN step[0]

\* resolve, once the loop has left resolvedPath and resolvedAbsolute
ResolveEnd(resolvedAbsolute, n) ==
    IF resolvedAbsolute THEN SLASH \o n
    ELSE IF Len(n) > 0 THEN n ELSE DOT

ResolveNormalized(r) == ResolveEnd(r.absolute, normalizeString(r.path, ~r.absolute))

resolve(pathSegments) == ResolveNormalized(ResolveFrom(pathSegments))

\* relative, on the segments of the two resolved paths: one '..' for every
\* segment of from below the common ancestor, then the segments of to below it
RelativeSegments(fsegs, tsegs) ==
    LET m == IF Len(fsegs) < Len(tsegs) THEN Len(fsegs) ELSE Len(tsegs)
        \* the number of leading segments the two paths share
        shared[k \in 0..m] ==
            IF k < m /\ fsegs[k + 1] = tsegs[k + 1] THEN shared[k + 1] ELSE k
        ups == [k \in 1..(Len(fsegs) - shared[0]) |-> DOTDOT]
    IN Join(ups \o SubSeq(tsegs, shared[0] + 1, Len(tsegs)), SLASH)

RelativeResolved(f, t) ==
    IF f = t THEN EmptyStr ELSE RelativeSegments(Segments(f), Segments(t))

\* relative(from, to): both paths are resolved first
relative(from, to) == RelativeResolved(resolve(<<from>>), resolve(<<to>>))

\* dirname(path): the path without its last segment
DirnameOf(path, segs) ==
    LET parent == Join(SubSeq(segs, 1, Len(segs) - 1), SLASH)
    IN IF Len(segs) = 0 THEN (IF isAbsolute(path) THEN SLASH ELSE DOT)
       ELSE IF isAbsolute(path) THEN SLASH \o parent
       ELSE IF Len(parent) = 0 THEN DOT ELSE parent

dirname(path) == DirnameOf(path, Segments(path))

(***************************************************************************)
(* src/clipboardMonitor.ts: the path check and the classifier.             *)
(***************************************************************************)
\* line 16, the '..' test forgotten
IsInside_noParentTest(rel) == rel # EmptyStr /\ ~isAbsolute(rel)

\* line 16: the test on the relative path
IsInside(rel) == rel # EmptyStr /\ ~StartsWith(rel, DOTDOT) /\ ~isAbsolute(rel)

isPathSafe(baseDir, targetPath) == IsInside(relative(baseDir, targetPath))

\* lines 107-109 of processClipboardContent
TargetPathAbs(base, filePath) ==
    normalize(IF isAbsolute(filePath) THEN filePath ELSE resolve(<<base, filePath>>))

\* lines 131 and 134: the line starts with the marker and holds a separator
MarkerLine(line) == StartsWith(line, MARKER) /\ Includes(line, SLASH)

\* lines 131-135, on the trimmed first line
FirstLineMatches(firstLine) ==
    \/ MarkerLine(firstLine)
    \/ StartsWith(firstLine, FENCE) /\ MarkerLine(Trim(StripFence(firstLine)))

\* the fenced opening forgotten
isFileReplacementPattern_noFence(content) == MarkerLine(Trim(Split(content, NL)[1]))

isFileReplacementPattern(content) == FirstLineMatches(Trim(Split(content, NL)[1]))

\* lines 139-141, as if the tokens had to come in the documented order
isSearchReplacePattern_ordered(content) ==
    /\ Includes(content, SEARCH_TOKEN)
    /\ Includes(content, SEPARATOR_TOKEN)
    /\ Includes(content, REPLACE_TOKEN)
    /\ IndexOf(content, SEARCH_TOKEN) < IndexOf(content, SEPARATOR_TOKEN)
    /\ IndexOf(content, SEPARATOR_TOKEN) < IndexOf(content, REPLACE_TOKEN)

\* lines 139-141
isSearchReplacePattern(content) ==
    /\ Includes(content, SEARCH_TOKEN)
    /\ Includes(content, SEPARATOR_TOKEN)
    /\ Includes(content, REPLACE_TOKEN)

\* lines 148-151: the first line with an opening fence taken off
WithoutFence(trimmed) ==
    IF StartsWith(trimmed, FENCE) THEN Trim(StripFence(trimmed)) ELSE trimmed

\* line 153: the path after the marker, none if there is no marker
FilePathOf(firstLine) ==
    IF StartsWith(firstLine, MARKER) THEN Trim(StripMarker(firstLine)) ELSE EmptyStr

\* lines 157-161: the last line dropped if it is a closing fence
DropClosingFence(contentLines, fileContent) ==
    IF Len(contentLines) > 0 /\ Trim(contentLines[Len(contentLines)]) = FENCE
    THEN Join(SubSeq(contentLines, 1, Len(contentLines) - 1), <<NL>>)
    ELSE fileContent

\* lines 154-162
FileContentOf(isFence, fileContent) ==
    IF isFence THEN DropClosingFence(Split(fileContent, NL), fileContent)
    ELSE fileContent

\* the content trimmed
ParseLines_trimmed(lines, trimmed) ==
    [filePath |-> FilePathOf(WithoutFence(trimmed)),
     fileContent |-> Trim(FileContentOf(StartsWith(trimmed, FENCE),
                                        Join(Slice1(lines), <<NL>>))),
     isFence |-> StartsWith(trimmed, FENCE)]

\* lines 145-163, on the lines of the text and its trimmed first line
ParseLines(lines, trimmed) ==
    [filePath |-> FilePathOf(WithoutFence(trimmed)),
     fileContent |-> FileContentOf(StartsWith(trimmed, FENCE),
                                   Join(Slice1(lines), <<NL>>)),
     isFence |-> StartsWith(trimmed, FENCE)]

ParseSplit(lines) == ParseLines(lines, Trim(lines[1]))

parseFileContent(content) == ParseSplit(Split(content, NL))

\* lines 177-178: the two texts cut out between the three positions
ExtractAt(content, searchStart, separator, replaceEnd) ==
    [searchStart |-> searchStart, separator |-> separator,
     replaceEnd |-> replaceEnd,
     searchContent |->
         Trim(Substring(content, searchStart + Len(SEARCH_TOKEN), separator)),
     replaceContent |->
         Trim(Substring(content, separator + Len(SEPARATOR_TOKEN), replaceEnd))]

\* lines 168-178 of processSearchReplace
ExtractSearchReplace(content) ==
    ExtractAt(content, IndexOf(content, SEARCH_TOKEN),
              IndexOf(content, SEPARATOR_TOKEN), IndexOf(content, REPLACE_TOKEN))

(***************************************************************************)
(* The inputs of the model: the project directories the monitor is         *)
(* constructed with, the disk it starts on, and the clipboard texts a poll *)
(* can read.                                                               *)
(***************************************************************************)
ProjectDirs == { <<"/", "p">>, <<"s">> }

InitialDisk ==
    [fs |-> ( <<"/", "p", "/", "a">> :> <<"x", NL, "x", NL>> )
            @@ ( <<"/", "p", "/", "s", "/", "b">> :> <<"x", "y", "x">> )
            @@ ( <<"/", "e">> :> <<"x">> ),
     dirs |-> { <<"/">>, <<"/", "p">>, <<"/", "p", "/", "s">> }]

\* declared paths
PathsAll ==
    { <<"a">>,
      <<"s", "/", "b">>,
      <<".", ".", "/", "e">>,
      <<".", ".", "a">>,
      <<".">>,
      <<"/", "p", "/", "a">>,
      <<"/", "p", "/", "s", "/", "b">>,
      <<"/", "p", "/", "s", "/">>,
      <<"/", "e">>,
      <<"n", "/", "c">>,
      <<"s", "/", ".", ".", "/", ".", ".", "/", "e">>,
      EmptyStr }

\* a search-and-replace block with its three tokens in the documented order
BlockBody(search, replace) ==
    <<NL>> \o SEARCH_TOKEN \o <<NL>> \o search \o SEPARATOR_TOKEN
           \o <<NL>> \o replace \o REPLACE_TOKEN

\* what follows the first line: whole-file bodies
BodiesWhole ==
    { EmptyStr,
      <<NL, "y">>,
      <<NL, "y", NL>>,
      <<NL, NL, "y", " ", NL>>,
      <<NL, "y", NL>> \o FENCE,
      <<NL, "y", NL>> \o FENCE \o <<NL>>,
      <<NL, "y", NL>> \o FENCE \o <<" ">>,
      \* a token is missing
      <<NL>> \o SEARCH_TOKEN \o <<NL, "x", NL>> \o SEPARATOR_TOKEN \o <<NL, "y">>,
      <<NL>> \o SEARCH_TOKEN \o <<NL>> \o SEPARATOR_TOKEN \o <<NL, "y">>,
      <<NL>> \o SEPARATOR_TOKEN \o <<NL, "y", NL>> \o REPLACE_TOKEN }

\* what follows the first line: search-and-replace blocks
BodiesBlock ==
    { BlockBody(<<"x", NL>>, <<"y", NL>>),
      BlockBody(<<"z", NL>>, <<"y", NL>>),
      BlockBody(EmptyStr, <<"y", NL>>),
      BlockBody(<<" ", NL>>, <<"y", NL>>),
      BlockBody(<<"x", NL>>, EmptyStr),
      BlockBody(<<"x", NL>>, <<"$", "&", NL>>),
      BlockBody(<<"x", NL>>, <<"$", "$", NL>>),
      BlockBody(<<"x", NL, "x", NL>>, <<"$", BQ, "$", "'", NL>>),
      BlockBody(<<"x", NL>>, <<"$", "1", "$", NL>>),
      \* the tokens out of order
      <<NL>> \o SEPARATOR_TOKEN \o <<NL, "x", NL>> \o SEARCH_TOKEN
             \o <<NL, "y", NL>> \o REPLACE_TOKEN,
      <<NL>> \o SEARCH_TOKEN \o <<NL, "x", NL>> \o REPLACE_TOKEN
             \o <<NL, "y", NL>> \o SEPARATOR_TOKEN,
      <<NL>> \o SEPARATOR_TOKEN \o <<NL>> \o SEARCH_TOKEN \o <<NL>>
             \o SEPARATOR_TOKEN \o <<NL, "y", NL>> \o REPLACE_TOKEN }

BodiesBasic == { <<NL, "y", NL>>, BlockBody(<<"x", NL>>, <<"y", NL>>) }

\* what stands before the path on, or before, the first line
Leads == { EmptyStr, <<NL>>, <<SP>> }
Openers == { EmptyStr, FENCE }
Markers == { MARKER, MARKER \o <<SP>>, EmptyStr }

Text(lead, opener, marker, path, body) == lead \o opener \o marker \o path \o body

Texts ==
    {Text(EmptyStr, EmptyStr, MARKER \o <<SP>>, path, body) :
        path \in PathsAll, body \in BodiesBasic}
    \cup {Text(EmptyStr, EmptyStr, MARKER \o <<SP>>, <<"a">>, body) :
        body \in BodiesWhole \cup BodiesBlock}
    \cup {Text(EmptyStr, FENCE, MARKER, <<"a">>, body) : body \in BodiesWhole}
    \cup {Text(lead, opener, marker, <<"a">>, <<NL, "y", NL>>) :
        lead \in Leads, opener \in Openers, marker \in Markers}
    \cup { EmptyStr, <<SP, NL>> }

\* the texts on which the operating system may also refuse a call
FaultTexts == {Text(EmptyStr, EmptyStr, MARKER \o <<SP>>, <<"a">>, body) :
                  body \in BodiesBasic}

\* line 77: clipboardContent.trim() === "", the trim forgotten
IsBlank_untrimmed(content) == content = EmptyStr

\* line 77: clipboardContent.trim() === ""
IsBlank(content) == Trim(content) = EmptyStr

\* how getClipboardText can fail: the error's class and message
ClipboardFailures == [isClipboardError : BOOLEAN, noTextFound : BOOLEAN]

(***************************************************************************)
(* What the classifier and the path functions answer on the model's        *)
(* inputs.  TLC evaluates a constant once, so these tables spare it the    *)
(* character-level work at every poll.                                     *)
(***************************************************************************)
Classified ==
    [content \in Texts |->
        [blank |-> IsBlank(content),
         fileReplacement |-> isFileReplacementPattern(content),
         searchReplace |-> isSearchReplacePattern(content),
         parsed |-> parseFileContent(content),
         extracted |-> ExtractSearchReplace(content)]]

Bases == {normalize(resolve(<<dir>>)) : dir \in ProjectDirs}

DeclaredPaths == {Classified[content].parsed.filePath : content \in Texts}

ResolvedTarget(base, targetPathAbs) ==
    [targetPathAbs |-> targetPathAbs,
     safe |-> isPathSafe(base, targetPathAbs),
     dir |-> dirname(targetPathAbs)]

Resolved ==
    [base \in Bases, filePath \in DeclaredPaths |->
        ResolvedTarget(base, TargetPathAbs(base, filePath))]

(***************************************************************************)
(* The disk, as Deno.readTextFile, Deno.mkdir and Deno.writeTextFile see   *)
(* it.  A disk is a record [fs, dirs]; fault names the call that the       *)
(* operating system refuses in this poll (permission denied and the like). *)
(***************************************************************************)
Faults == {"none", "read", "mkdir", "write"}

\* a directory and all the directories above it
AncestorsOf(segs) == {SLASH \o Join(SubSeq(segs, 1, k), SLASH) : k \in 0..Len(segs)}

Ancestors(dir) == AncestorsOf(Segments(dir))

HasTrailingSeparator(path) == Len(path) > 1 /\ path[Len(path)] = "/"

ReadSucceeds(disk, path, fault) ==
    fault # "read" /\ path \in DOMAIN disk.fs

MkdirSucceeds(disk, dir, fault) ==
    fault # "mkdir" /\ Ancestors(dir) \cap DOMAIN disk.fs = {}

WriteSucceeds(disk, path, dir, fault) ==
    /\ fault # "write"
    /\ ~HasTrailingSeparator(path)
    /\ path \notin disk.dirs
    /\ dir \in disk.dirs

\* line 211: Deno.writeTextFile(targetPathAbs, fileContent), as if it appended
WriteFile_appending(disk, path, content) ==
    [disk EXCEPT !.fs = [q \in DOMAIN disk.fs \cup {path} |->
                            IF q # path THEN disk.fs[q]
                            ELSE IF path \in DOMAIN disk.fs
                            THEN disk.fs[path] \o content ELSE content]]

WriteFile(disk, path, content) ==
    [disk EXCEPT !.fs = [q \in DOMAIN disk.fs \cup {path} |->
                            IF q = path THEN content ELSE disk.fs[q]]]

MakeDirs(disk, dir) == [disk EXCEPT !.dirs = disk.dirs \cup Ancestors(dir)]

ReadOp(path, ok, content) ==
    [op |-> "read", path |-> path, file |-> path, ok |-> ok, content |-> content]
MkdirOp(dir, file, ok) ==
    [op |-> "mkdir", path |-> dir, file |-> file, ok |-> ok, content |-> EmptyStr]
WriteOp(path, ok, content) ==
    [op |-> "write", path |-> path, file |-> path, ok |-> ok, content |-> content]

Msg(tag, a, b) == <<tag, a, b>>

(***************************************************************************)
(* src/clipboardMonitor.ts: the edit appliers.  Each returns the disk it   *)
(* leaves, the filesystem calls it made and the messages it printed.       *)
(***************************************************************************)
\* line 180: if (!searchContent)
EmptySearch_dropped(searchContent) == FALSE
EmptySearch(searchContent) == searchContent = EmptyStr

\* line 187: originalContent.includes(searchContent)
SearchFound_dropped(originalContent, searchContent) == TRUE
SearchFound(originalContent, searchContent) == Includes(originalContent, searchContent)

\* lines 172-200, on the positions and texts extracted from the content
ApplySearchReplace(disk, filePath, dir, x, verbose, fault) ==
    LET searchContent == x.searchContent
        replaceContent == x.replaceContent
        start == <<Msg("sr:processing", filePath, EmptyStr)>>
    IN IF x.searchStart = -1 \/ x.separator = -1 \/ x.replaceEnd = -1
       THEN [disk |-> disk, ops |-> << >>,
             log |-> start \o <<Msg("sr:invalid", EmptyStr, EmptyStr)>>,
             search |-> EmptyStr, replace |-> EmptyStr]
       ELSE IF EmptySearch(searchContent)
       THEN [disk |-> disk, ops |-> << >>,
             log |-> start \o <<Msg("sr:empty", EmptyStr, EmptyStr)>>,
             search |-> searchContent, replace |-> replaceContent]
       ELSE IF ~ReadSucceeds(disk, filePath, fault)
       THEN [disk |-> disk, ops |-> <<ReadOp(filePath, FALSE, EmptyStr)>>,
             log |-> start \o <<Msg("sr:ioerror", filePath, EmptyStr)>>,
             search |-> searchContent, replace |-> replaceContent]
       ELSE LET originalContent == disk.fs[filePath]
                read == ReadOp(filePath, TRUE, originalContent)
                newFileContent ==
                    StringReplace(originalContent, searchContent, replaceContent)
            IN IF ~SearchFound(originalContent, searchContent)
               THEN [disk |-> disk, ops |-> <<read>>,
                     log |-> start \o <<Msg("sr:notfound", filePath, EmptyStr)>>
                             \o (IF verbose
                                 THEN <<Msg("sr:preview", searchContent, EmptyStr)>>
                                 ELSE << >>),
                     search |-> searchContent, replace |-> replaceContent]
               ELSE IF ~WriteSucceeds(disk, filePath, dir, fault)
               THEN [disk |-> disk,
                     ops |-> <<read, WriteOp(filePath, FALSE, newFileContent)>>,
                     log |-> start \o <<Msg("sr:ioerror", filePath, EmptyStr)>>,
                     search |-> searchContent, replace |-> replaceContent]
               ELSE [disk |-> WriteFile(disk, filePath, newFileContent),
                     ops |-> <<read, WriteOp(filePath, TRUE, newFileContent)>>,
                     log |-> start \o <<Msg("sr:replaced", filePath, EmptyStr)>>,
                     search |-> searchContent, replace |-> replaceContent]

processSearchReplace(disk, filePath, dir, content, verbose, fault) ==
    ApplySearchReplace(disk, filePath, dir, Classified[content].extracted,
                       verbose, fault)

processCompleteFileReplacement(disk, targetPathAbs, dir, fileContent, verbose, fault) ==
    LET start == <<Msg("wf:processing", targetPathAbs, EmptyStr)>>
                 \o (IF verbose THEN <<Msg("wf:size", targetPathAbs, EmptyStr)>>
                     ELSE << >>)
        failed == <<Msg("wf:error", targetPathAbs, EmptyStr)>>
    IN IF ~MkdirSucceeds(disk, dir, fault)
       THEN [disk |-> disk, ops |-> <<MkdirOp(dir, targetPathAbs, FALSE)>>,
             log |-> start \o failed]
       ELSE LET made == MakeDirs(disk, dir)
                mk == MkdirOp(dir, targetPathAbs, TRUE)
            IN IF ~WriteSucceeds(made, targetPathAbs, dir, fault)
               THEN [disk |-> made,
                     ops |-> <<mk, WriteOp(targetPathAbs, FALSE, fileContent)>>,
                     log |-> start \o failed]
               ELSE [disk |-> WriteFile(made, targetPathAbs, fileContent),
                     ops |-> <<mk, WriteOp(targetPathAbs, TRUE, fileContent)>>,
                     log |-> start
                             \o <<Msg("wf:updated", targetPathAbs, EmptyStr)>>]

\* the result of a poll that touched nothing
Untouched(disk, kind, messages) ==
    [disk |-> disk, ops |-> << >>, log |-> messages, kind |-> kind,
     filePath |-> EmptyStr, target |-> EmptyStr, fileContent |-> EmptyStr,
     search |-> EmptyStr, replace |-> EmptyStr]

\* line 97: if (!filePath)
NoPath_dropped(filePath) == FALSE
NoPath(filePath) == filePath = EmptyStr

\* lines 118-123: the edit applied and what the poll is recorded as
Applied(r, kind, filePath, targetPathAbs, fileContent) ==
    [disk |-> r.disk, ops |-> r.ops, log |-> r.log, kind |-> kind,
     filePath |-> filePath, target |-> targetPathAbs, fileContent |-> fileContent,
     search |-> IF kind = "searchreplace" THEN r.search ELSE EmptyStr,
     replace |-> IF kind = "searchreplace" THEN r.replace ELSE EmptyStr]

\* lines 111-123, on the resolved target
ProcessTarget(disk, base, content, c, resolved, verbose, fault) ==
    IF ~resolved.safe
    THEN [Untouched(disk, "blocked", <<Msg("blocked", base, resolved.targetPathAbs)>>)
             EXCEPT !.filePath = c.parsed.filePath, !.target = resolved.targetPathAbs]
    ELSE IF c.searchReplace
    THEN Applied(processSearchReplace(disk, resolved.targetPathAbs, resolved.dir,
                                      content, verbose, fault),
                 "searchreplace", c.parsed.filePath, resolved.targetPathAbs, EmptyStr)
    ELSE Applied(processCompleteFileReplacement(disk, resolved.targetPathAbs,
                                                resolved.dir, c.parsed.fileContent,
                                                verbose, fault),
                 "wholefile", c.parsed.filePath, resolved.targetPathAbs,
                 c.parsed.fileContent)

\* lines 97-123, on the parsed text
ProcessParsed(disk, base, content, c, verbose, fault) ==
    IF NoPath(c.parsed.filePath)
    THEN Untouched(disk, "nopath",
                   IF verbose THEN <<Msg("nopath", EmptyStr, EmptyStr)>> ELSE << >>)
    ELSE IF base = Null
    THEN [Untouched(disk, "nobase", <<Msg("nobase", EmptyStr, EmptyStr)>>)
             EXCEPT !.filePath = c.parsed.filePath]
    ELSE ProcessTarget(disk, base, content, c, Resolved[base, c.parsed.filePath],
                       verbose, fault)

processClipboardContent(disk, base, content, verbose, fault) ==
    ProcessParsed(disk, base, content, Classified[content], verbose, fault)

(***************************************************************************)
(* src/projectDetection.ts: the rule table.  File and folder names are     *)
(* strings; TLC computes Len, SubSeq and \o on strings, which is what the  *)
(* tests on names below are made of.                                       *)
(***************************************************************************)
\* lines 19-139
PROJECT_DETECTION_RULES ==
    << [name |-> "Next.js", priority |-> 10,
        files |-> <<"next.config.js", "next.config.ts", "next.config.mjs">>,
        folders |-> <<".next">>,
        patterns |-> <<"pages/", "app/", "components/">>],
       [name |-> "Vue.js", priority |-> 9,
        files |-> <<"vue.config.js", "vite.config.js", "nuxt.config.js",
                    "nuxt.config.ts">>,
        folders |-> <<".nuxt", "dist">>,
        patterns |-> <<"*.vue">>],
       [name |-> "React", priority |-> 8,
        files |-> <<"package.json">>,
        folders |-> << >>,
        patterns |-> <<"*.jsx", "*.tsx", "components/", "pages/", "app/">>],
       [name |-> "Deno", priority |-> 10,
        files |-> <<"deno.json", "deno.jsonc", "import_map.json">>,
        folders |-> << >>,
        patterns |-> <<"deps.ts", "mod.ts", "main.ts">>],
       [name |-> "Node.js", priority |-> 8,
        files |-> <<"package.json", "package-lock.json", "yarn.lock",
                    "pnpm-lock.yaml">>,
        folders |-> <<"node_modules">>,
        patterns |-> << >>],
       [name |-> "Python", priority |-> 7,
        files |-> <<"requirements.txt", "setup.py", "pyproject.toml", "Pipfile",
                    "poetry.lock">>,
        folders |-> <<"__pycache__", "venv", ".venv", "env", ".env">>,
        patterns |-> <<"*.py">>],
       [name |-> "Rust", priority |-> 7,
        files |-> <<"Cargo.toml", "Cargo.lock">>,
        folders |-> <<"target">>,
        patterns |-> <<"*.rs">>],
       [name |-> "Go", priority |-> 7,
        files |-> <<"go.mod", "go.sum">>,
        folders |-> <<"vendor">>,
        patterns |-> <<"*.go">>],
       [name |-> "Arduino", priority |-> 6,
        files |-> <<"*.ino">>,
        folders |-> <<"libraries", "hardware">>,
        patterns |-> <<"*.ino">>],
       [name |-> "ESP-IDF", priority |-> 8,
        files |-> <<"CMakeLists.txt", "sdkconfig", "idf_component.yml">>,
        folders |-> <<"build", "managed_components">>,
        patterns |-> <<"main/", "components/">>],
       [name |-> "C/C++", priority |-> 5,
        files |-> <<"Makefile", "CMakeLists.txt", "configure.ac">>,
        folders |-> <<"build", "obj">>,
        patterns |-> <<"*.c", "*.cpp", "*.cc", "*.cxx", "*.h", "*.hpp">>],
       [name |-> "Java", priority |-> 6,
        files |-> <<"pom.xml", "build.gradle", "gradle.properties">>,
        folders |-> <<"target", "build", ".gradle">>,
        patterns |-> <<"*.java">>],
       [name |-> "C#/.NET", priority |-> 6,
        files |-> <<"*.csproj", "*.sln", "project.json", "packages.config">>,
        folders |-> <<"bin", "obj", "packages">>,
        patterns |-> <<"*.cs">>],
       [name |-> "PHP", priority |-> 5,
        files |-> <<"composer.json", "composer.lock">>,
        folders |-> <<"vendor">>,
        patterns |-> <<"*.php">>],
       [name |-> "Ruby", priority |-> 5,
        files |-> <<"Gemfile", "Gemfile.lock", "Rakefile">>,
        folders |-> <<"vendor/bundle">>,
        patterns |-> <<"*.rb">>],
       [name |-> "Swift", priority |-> 6,
        files |-> <<"Package.swift", "*.xcodeproj", "*.xcworkspace">>,
        folders |-> <<".build", "DerivedData">>,
        patterns |-> <<"*.swift">>],
       [name |-> "Kotlin", priority |-> 6,
        files |-> <<"build.gradle.kts", "settings.gradle.kts">>,
        folders |-> <<"build", ".gradle">>,
        patterns |-> <<"*.kt", "*.kts">>] >>

\* the names of the rules in the order of the table in the source
SourceOrder == [i \in DOMAIN PROJECT_DETECTION_RULES |-> PROJECT_DETECTION_RULES[i].name]

RuleOf(table, name) == CHOOSE r \in {table[i] : i \in DOMAIN table} : r.name = name

\* name.endsWith(suffix), name.startsWith(prefix), name.includes(part)
NameEndsWith(name, suffix) ==
    /\ Len(name) >= Len(suffix)
    /\ SubSeq(name, Len(name) - Len(suffix) + 1, Len(name)) = suffix

NameStartsWith(name, prefix) ==
    Len(name) >= Len(prefix) /\ SubSeq(name, 1, Len(prefix)) = prefix

NameIncludes(name, part) ==
    \E i \in 0..(Len(name) - Len(part)) : SubSeq(name, i + 1, i + Len(part)) = part

\* name.substring(2)
AfterStar(name) == SubSeq(name, 3, Len(name))

(***************************************************************************)
(* The directory detectProjectType looks at: the names of the files and of *)
(* the folders at its top, what each of its folders holds, and what the    *)
(* dependencies of its package.json are ("react", "other", or "invalid"    *)
(* for a file that is not JSON).  A condition says which calls of the      *)
(* operating system are refused.                                           *)
(***************************************************************************)
Folder(name, files, folders) == [name |-> name, files |-> files, dirs |-> folders]

Directory(files, folders, manifest) ==
    [files |-> files, folders |-> folders, manifest |-> manifest]

Directories ==
    { Directory({}, {}, "other"),
      Directory({"package.json"}, {Folder("src", {"App.tsx"}, {})}, "react"),
      Directory({"package.json"}, {Folder("node_modules", {}, {})}, "other"),
      Directory({"package.json"}, {}, "invalid"),
      Directory({"Gemfile"}, {Folder("node_modules", {}, {})}, "other"),
      Directory({}, {Folder(".gradle", {}, {}), Folder("vendor", {}, {})}, "other"),
      Directory({}, {Folder("build", {}, {}), Folder("vendor", {}, {"bundle"})},
                "other"),
      Directory({"Makefile"}, {}, "other"),
      Directory({"Makefile", "main.c"}, {}, "other"),
      Directory({"go.mod", "main.go"}, {}, "other"),
      Directory({"algorithm.gold", "x.py"}, {}, "other"),
      Directory({"go.mod", "algorithm.gold"}, {}, "other"),
      Directory({"sketch.ino.bak"}, {Folder("libraries", {}, {})}, "other"),
      Directory({"Cargo.toml"}, {Folder("src", {"main.rs"}, {})}, "other"),
      Directory({"sketch.ino"}, {Folder("libraries", {}, {})}, "other"),
      Directory({"deno.json", "mod.ts", "package.json"}, {}, "other") }

\* "none": every call succeeds.  "listingDenied": Deno.readDir of the
\* directory throws.  "manifestUnreadable": Deno.readTextFile of package.json
\* throws.  "statFails": Deno.stat under the directory throws an error other
\* than NotFound (the path given is a regular file, say), which exists() of
\* the standard library throws on.
Conditions == {"none", "listingDenied", "manifestUnreadable", "statFails"}

(***************************************************************************)
(* src/projectDetection.ts: detectProjectType, the scan of one rule.       *)
(***************************************************************************)
FolderNames(dir) == {f.name : f \in dir.folders}

\* exists(join(dirPath, name)) when Deno.stat answers: a file or a folder of
\* that name, at the top or inside a folder at the top
Exists(dir, name) ==
    \/ name \in dir.files \cup FolderNames(dir)
    \/ \E f \in dir.folders : \E e \in f.files \cup f.dirs : name = f.name \o "/" \o e

\* lines 262-267, 357-363, as if the expression were not anchored at the end
GlobMatches_unanchored(glob, f) == NameIncludes(f, "." \o AfterStar(glob))

\* lines 262-267, 357-363 for a glob '*.ext': new RegExp(`\\.${ext}$`).test(f)
GlobMatches(glob, f) == NameEndsWith(f, "." \o AfterStar(glob))

\* line 302: /\.(c|cpp|cc|cxx|c\+\+)$/i.test(f), the letters all of one case
CppSuffixes == {".c", ".cpp", ".cc", ".cxx", ".c++", ".C", ".CPP", ".CC", ".CXX", ".C++"}
\* line 302, as if every file counted as a source file
IsCppSource_any(f) == TRUE

IsCppSource(f) == \E suffix \in CppSuffixes : NameEndsWith(f, suffix)

BuildFiles == {"Makefile", "CMakeLists.txt", "configure.ac"}

Scored(confidence) == [confidence |-> confidence, matchCount |-> 1]
NotScored == [confidence |-> 0, matchCount |-> 0]

\* lines 276-314: what a file of the rule that exists adds
ExistingFileScore(dir, condition, ruleName, file) ==
    IF file = "package.json" /\ ruleName = "React"
    THEN IF condition = "manifestUnreadable" \/ dir.manifest = "invalid"
         THEN Scored(3)
         ELSE IF dir.manifest = "react" THEN Scored(5) ELSE NotScored
    ELSE IF ruleName = "C/C++" /\ file \in BuildFiles
    THEN IF condition # "listingDenied" /\ \E f \in dir.files : IsCppSource(f)
         THEN Scored(3) ELSE NotScored
    ELSE Scored(3)

\* lines 249-316: what one entry of rule.files adds
FileScore(dir, condition, ruleName, file) ==
    IF NameIncludes(file, "*")
    THEN IF condition # "listingDenied" /\ \E f \in dir.files : GlobMatches(file, f)
         THEN Scored(4) ELSE NotScored
    ELSE IF Exists(dir, file)
    THEN ExistingFileScore(dir, condition, ruleName, file)
    ELSE NotScored

\* lines 319-325: what one entry of rule.folders adds
FolderScore(dir, folder) == IF Exists(dir, folder) THEN Scored(2) ELSE NotScored

\* line 343: the folders collectFiles descends into
SourceFolders == {"src", "lib", "app", "pages", "components", "main"}

\* lines 334-350: allFiles and allDirs of collectFiles(dirPath)
AllFiles(dir) ==
    dir.files \cup UNION {f.files : f \in {g \in dir.folders : g.name \in SourceFolders}}

AllDirs(dir) ==
    {name \o "/" : name \in FolderNames(dir)
                      \cup UNION {f.dirs : f \in {g \in dir.folders :
                                                    g.name \in SourceFolders}}}

\* lines 352-377: what one entry of rule.patterns adds
PatternScore(dir, pattern) ==
    LET matchesPattern ==
            IF NameIncludes(pattern, "*")
            THEN \E f \in AllFiles(dir) : GlobMatches(pattern, f)
            ELSE IF NameEndsWith(pattern, "/")
            THEN pattern \in AllDirs(dir)
            ELSE pattern \in AllFiles(dir)
    IN IF matchesPattern THEN [confidence |-> 1, matchCount |-> 1] ELSE NotScored

RECURSIVE SumConfidence(_)
SumConfidence(scores) ==
    IF scores = << >> THEN 0
    ELSE Head(scores).confidence + SumConfidence(Tail(scores))

RECURSIVE SumMatchCount(_)
SumMatchCount(scores) ==
    IF scores = << >> THEN 0
    ELSE Head(scores).matchCount + SumMatchCount(Tail(scores))

\* line 328-329: the patterns are looked at when there are some and the
\* listing succeeds
PatternsScanned(rule, condition) ==
    IF Len(rule.patterns) > 0 /\ condition # "listingDenied"
    THEN rule.patterns ELSE << >>

\* lines 244-381 for one rule: the scores of its checks in the order made
RuleScores(dir, condition, rule, patterns) ==
    [i \in DOMAIN rule.files |-> FileScore(dir, condition, rule.name, rule.files[i])]
    \o [i \in DOMAIN rule.folders |-> FolderScore(dir, rule.folders[i])]
    \o [i \in DOMAIN patterns |-> PatternScore(dir, patterns[i])]

Max(a, b) == IF a >= b THEN a ELSE b

\* lines 383-391: the candidate of a rule, its confidence kept as the
\* quotient num / den
Candidate(rule, scores) ==
    [name |-> rule.name, priority |-> rule.priority,
     num |-> SumConfidence(scores), matchCount |-> SumMatchCount(scores),
     den |-> Max(Len(scores), Len(rule.files) + Len(rule.folders))]

ScanRule(dir, condition, rule) ==
    Candidate(rule, RuleScores(dir, condition, rule, PatternsScanned(rule, condition)))

\* line 384, as if the minimum of the raw score were not asked for
Survives_anyMatch(candidate) == candidate.matchCount > 0

\* line 384: if (matchCount > 0 && confidence >= 2)
Survives(candidate) == candidate.matchCount > 0 /\ candidate.num >= 2

\* lines 275, 321: exists() is called, so that a failing Deno.stat is thrown on
CallsExists(rule) ==
    \/ \E i \in DOMAIN rule.files : ~NameIncludes(rule.files[i], "*")
    \/ Len(rule.folders) > 0

(***************************************************************************)
(* Array.prototype.sort as V8, the engine of Deno, computes it on an array *)
(* of fewer than 64 elements: the run the array begins with is found and,  *)
(* when descending, reversed; the other elements are put in place one by   *)
(* one by binary insertion.  cmp[x, y] is what the comparator returns on   *)
(* (x, y).  Indices count from 0 as in the source; a[i + 1] is element i.  *)
(***************************************************************************)
Reverse(a) == [i \in DOMAIN a |-> a[Len(a) + 1 - i]]

RunContinues(a, cmp, descending, i) ==
    IF descending THEN cmp[a[i + 1], a[i]] < 0 ELSE cmp[a[i + 1], a[i]] >= 0

CountRun(a, cmp, descending) ==
    CHOOSE run \in 2..Len(a) :
        /\ \A i \in 2..(run - 1) : RunContinues(a, cmp, descending, i)
        /\ run = Len(a) \/ ~RunContinues(a, cmp, descending, run)

MakeRun(a, descending, run) ==
    IF descending THEN Reverse(SubSeq(a, 1, run)) \o SubSeq(a, run + 1, Len(a))
    ELSE a

RECURSIVE BinarySearch(_, _, _, _, _)
BinarySearch(a, cmp, pivot, left, right) ==
    IF left >= right THEN left
    ELSE IF cmp[pivot, a[left + ((right - left) \div 2) + 1]] < 0
    THEN BinarySearch(a, cmp, pivot, left, left + ((right - left) \div 2))
    ELSE BinarySearch(a, cmp, pivot, left + ((right - left) \div 2) + 1, right)

InsertAt(a, start, left) ==
    SubSeq(a, 1, left) \o <<a[start + 1]>> \o SubSeq(a, left + 1, start)
        \o SubSeq(a, start + 2, Len(a))

RECURSIVE BinaryInsertionSort(_, _, _)
BinaryInsertionSort(a, cmp, start) ==
    IF start >= Len(a) THEN a
    ELSE BinaryInsertionSort(
             InsertAt(a, start, BinarySearch(a, cmp, a[start + 1], 0, start)),
             cmp, start + 1)

SortFromRun(a, cmp, descending, run) ==
    BinaryInsertionSort(MakeRun(a, descending, run), cmp, run)

SortRuns(a, cmp, descending) == SortFromRun(a, cmp, descending, CountRun(a, cmp, descending))

ArraySort(a, cmp) ==
    IF Len(a) < 2 THEN a ELSE SortRuns(a, cmp, cmp[a[2], a[1]] < 0)

(***************************************************************************)
(* src/projectDetection.ts: detectProjectType.                             *)
(***************************************************************************)
Elements(a) == {a[i] : i \in DOMAIN a}

\* line 241: (a, b) => b.priority - a.priority, on the names of the rules
ByPriority(names) ==
    [p \in names \X names |->
        RuleOf(PROJECT_DETECTION_RULES, p[2]).priority
            - RuleOf(PROJECT_DETECTION_RULES, p[1]).priority]

\* line 241, as if the table were reversed in place instead of sorted
SortRules_reversing(table) == Reverse(table)

\* line 241: PROJECT_DETECTION_RULES.sort(...), which sorts the table in place
SortRules(table) == ArraySort(table, ByPriority(Elements(table)))

Abs(n) == IF n < 0 THEN -n ELSE n
Sign(n) == IF n < 0 THEN -1 ELSE IF n > 0 THEN 1 ELSE 0

\* a.confidence - b.confidence, times a.den * b.den
Difference(a, b) == a.num * b.den - b.num * a.den

\* The quotients x / y and z / w, for <<x, y, z, w>>, that lie exactly one
\* fifth apart and whose difference computed in IEEE 754 double precision is
\* less than the double 0.2 (as 0.6 - 0.4 = 0.19999999999999996), among the
\* quotients the table of rules can yield.  Of the other quotients one fifth
\* apart the computed difference is not less than 0.2.
RoundsBelowDelta ==
    { <<3, 5, 2, 5>>, <<7, 10, 1, 2>>, <<1, 1, 4, 5>>, <<6, 5, 1, 1>>,
      <<13, 10, 11, 10>>, <<7, 5, 6, 5>>, <<3, 2, 13, 10>>,
      <<17, 10, 3, 2>>, <<9, 5, 8, 5>>, <<19, 10, 17, 10>>, <<2, 1, 9, 5>>,
      <<23, 10, 21, 10>>, <<12, 5, 11, 5>>, <<14, 5, 13, 5>>,
      <<17, 5, 16, 5>>, <<19, 5, 18, 5>> }

IsEntry(a, b, e) == a.num * e[2] = e[1] * a.den /\ b.num * e[4] = e[3] * b.den

\* line 396: Math.abs(a.confidence - b.confidence) < 0.2.  Differences that
\* are not exactly one fifth lie further from it than rounding reaches.
WithinDelta(a, b) ==
    \/ 5 * Abs(Difference(a, b)) < a.den * b.den
    \/ /\ 5 * Abs(Difference(a, b)) = a.den * b.den
       /\ \E e \in RoundsBelowDelta : IsEntry(a, b, e) \/ IsEntry(b, a, e)

\* lines 395-400: the comparator of detectedTypes.sort
CompareDetected(a, b) ==
    IF WithinDelta(a, b) THEN b.priority - a.priority ELSE Sign(Difference(b, a))

ByConfidence(candidates) ==
    [p \in candidates \X candidates |-> CompareDetected(p[1], p[2])]

\* lines 243-392: the candidates in the order the rules are scanned
ScanRules(sortedRules, dir, condition) ==
    SelectSeq([i \in DOMAIN sortedRules |->
                  ScanRule(dir, condition,
                           RuleOf(PROJECT_DETECTION_RULES, sortedRules[i]))],
              Survives)

\* lines 395-400
SortDetected(detectedTypes) ==
    ArraySort(detectedTypes, ByConfidence(Elements(detectedTypes)))

\* line 403: detectedTypes.slice(0, 3).map(t => t.name)
TopNames(detectedTypes) ==
    [i \in 1..(IF Len(detectedTypes) < 3 THEN Len(detectedTypes) ELSE 3) |->
        detectedTypes[i].name]

\* whether a call of exists() throws during the scan
ScanThrows(sortedRules, condition) ==
    /\ condition = "statFails"
    /\ \E i \in DOMAIN sortedRules :
          CallsExists(RuleOf(PROJECT_DETECTION_RULES, sortedRules[i]))

Returned(sortedRules, detectedTypes) ==
    [threw |-> FALSE, rules |-> sortedRules, detectedTypes |-> detectedTypes,
     names |-> TopNames(detectedTypes)]

Thrown(sortedRules) ==
    [threw |-> TRUE, rules |-> sortedRules, detectedTypes |-> << >>, names |-> << >>]

DetectSorted(sortedRules, dir, condition) ==
    IF ScanThrows(sortedRules, condition) THEN Thrown(sortedRules)
    ELSE Returned(sortedRules, SortDetected(ScanRules(sortedRules, dir, condition)))

\* lines 237-404: the table as the call leaves it, and what the call yields
DetectProjectType(table, dir, condition) ==
    DetectSorted(SortRules(table), dir, condition)

NoOutcome == [threw |-> FALSE, detectedTypes |-> << >>, names |-> << >>]

(***************************************************************************)
(* src/projectDetection.ts: the default ignore patterns, and               *)
(* getDefaultIgnorePatterns.  A list of patterns is a sequence of strings. *)
(***************************************************************************)
DEFAULT_IGNORE_PATTERNS ==
    << [name |-> "Next.js",
        files |-> <<".env.local", ".env.development.local",
                    ".env.test.local", ".env.production.local">>,
        folders |-> <<".next", "out", "dist", "node_modules", ".vercel",
                      ".netlify">>,
        extensions |-> <<".log", ".lock">>],
       [name |-> "Vue.js",
        files |-> <<".env.local", ".env.*.local">>,
        folders |-> <<"dist", "node_modules", ".nuxt", ".output", ".cache",
                      ".temp">>,
        extensions |-> <<".log", ".lock">>],
       [name |-> "React",
        files |-> <<".env.local", ".env.development.local",
                    ".env.test.local", ".env.production.local">>,
        folders |-> <<"build", "dist", "node_modules", ".cache">>,
        extensions |-> <<".log", ".lock">>],
       [name |-> "Deno",
        files |-> <<"deno.lock", ".env">>,
        folders |-> <<".deno", "vendor">>,
        extensions |-> <<".log", ".cache">>],
       [name |-> "Node.js",
        files |-> <<".env", ".env.local", ".env.*.local", "npm-debug.log*",
                    "yarn-debug.log*", "yarn-error.log*">>,
        folders |-> <<"node_modules", "dist", "build", ".nyc_output",
                      "coverage", ".cache">>,
        extensions |-> <<".log", ".lock", ".tgz", ".tar.gz">>],
       [name |-> "Python",
        files |-> <<".env", "*.pyc", "*.pyo", "*.pyd", ".Python",
                    "pip-log.txt", "pip-delete-this-directory.txt">>,
        folders |-> <<"__pycache__", "*.egg-info", "dist", "build",
                      ".pytest_cache", ".coverage", ".mypy_cache", "venv",
                      ".venv", "env", ".env", "ENV", "env.bak", "venv.bak">>,
        extensions |-> <<".pyc", ".pyo", ".pyd", ".so", ".egg", ".whl">>],
       [name |-> "Rust",
        files |-> <<"Cargo.lock">>,
        folders |-> <<"target", ".cargo">>,
        extensions |-> <<".rlib", ".rmeta", ".crate">>],
       [name |-> "Go",
        files |-> <<"go.sum">>,
        folders |-> <<"vendor", "bin", "pkg">>,
        extensions |-> <<".exe", ".test", ".prof">>],
       [name |-> "Arduino",
        files |-> <<"*.hex", "*.bin", "*.elf">>,
        folders |-> <<"build", ".vscode">>,
        extensions |-> <<".hex", ".bin", ".elf", ".map", ".lst">>],
       [name |-> "ESP-IDF",
        files |-> <<"sdkconfig.old", "*.bin", "*.elf", "*.map">>,
        folders |-> <<"build", "managed_components", ".espressif">>,
        extensions |-> <<".bin", ".elf", ".map", ".hex">>],
       [name |-> "C/C++",
        files |-> <<"*.o", "*.obj", "*.exe", "*.dll", "*.so", "*.dylib",
                    "core", "a.out">>,
        folders |-> <<"build", "bin", "obj", ".vs", "Debug", "Release">>,
        extensions |-> <<".o", ".obj", ".exe", ".dll", ".so", ".dylib", ".a",
                         ".lib", ".pdb", ".ilk", ".exp">>],
       [name |-> "Java",
        files |-> <<"*.class", "*.jar", "*.war", "*.ear", "hs_err_pid*">>,
        folders |-> <<"target", "build", ".gradle", ".mvn", "bin">>,
        extensions |-> <<".class", ".jar", ".war", ".ear">>],
       [name |-> "C#/.NET",
        files |-> <<"*.exe", "*.dll", "*.pdb", "*.cache">>,
        folders |-> <<"bin", "obj", "packages", ".vs", ".vscode",
                      "TestResults">>,
        extensions |-> <<".exe", ".dll", ".pdb", ".cache", ".user", ".suo">>],
       [name |-> "PHP",
        files |-> <<".env", "composer.phar">>,
        folders |-> <<"vendor", "storage/logs", "bootstrap/cache">>,
        extensions |-> <<".log">>],
       [name |-> "Ruby",
        files |-> <<".env", "*.gem", ".bundle">>,
        folders |-> <<"vendor/bundle", ".bundle", "log", "tmp">>,
        extensions |-> <<".gem", ".rbc">>],
       [name |-> "Swift",
        files |-> <<"*.xcuserstate", "*.xcuserdatad">>,
        folders |-> <<".build", "DerivedData", "xcuserdata", ".swiftpm">>,
        extensions |-> <<".xcuserstate", ".xcuserdatad">>],
       [name |-> "Kotlin",
        files |-> <<"*.class", "*.jar", "*.war", "*.ear">>,
        folders |-> <<"build", ".gradle", "bin">>,
        extensions |-> <<".class", ".jar", ".war", ".ear">>] >>

COMMON_IGNORE_PATTERNS ==
    [files |-> <<".DS_Store", "Thumbs.db", "desktop.ini", "*.swp", "*.swo",
                 "*~">>,
     folders |-> <<".git", ".svn", ".hg", ".idea", ".vscode", "*.tmp", "tmp",
                   "temp">>,
     extensions |-> <<".tmp", ".temp", ".bak", ".backup", ".old">>]

\* the keys of DEFAULT_IGNORE_PATTERNS
TableKeys == {DEFAULT_IGNORE_PATTERNS[i].name : i \in DOMAIN DEFAULT_IGNORE_PATTERNS}

\* names DEFAULT_IGNORE_PATTERNS, an object literal, inherits from
\* Object.prototype: looked up they yield a value that is not undefined and
\* has no property files
InheritedKeys == {"constructor", "toString", "valueOf", "hasOwnProperty", "__proto__"}

\* line 415: DEFAULT_IGNORE_PATTERNS[projectType], for a key of the table
PatternsOf(projectType) ==
    CHOOSE p \in {DEFAULT_IGNORE_PATTERNS[i] : i \in DOMAIN DEFAULT_IGNORE_PATTERNS} :
        p.name = projectType

Combined(files, folders, extensions) ==
    [threw |-> FALSE, files |-> files, folders |-> folders, extensions |-> extensions]

\* combined.files.push(...patterns.files) of a value without property files
\* throws a TypeError
CombinedThrew == [threw |-> TRUE, files |-> << >>, folders |-> << >>, extensions |-> << >>]

\* lines 416-420, as if the patterns of a type replaced those gathered so far
Push_replacing(combined, patterns) ==
    Combined(patterns.files, patterns.folders, patterns.extensions)

\* lines 416-420: combined.*.push(...patterns.*)
Push(combined, patterns) ==
    Combined(combined.files \o patterns.files,
             combined.folders \o patterns.folders,
             combined.extensions \o patterns.extensions)

\* lines 415-421: the body of the loop for one project type
MergeType(combined, projectType) ==
    IF combined.threw THEN combined
    ELSE IF projectType \in TableKeys THEN Push(combined, PatternsOf(projectType))
    ELSE IF projectType \in InheritedKeys THEN CombinedThrew
    ELSE combined

\* lines 414-422: for (const projectType of projectTypes)
RECURSIVE MergeTypes(_, _)
MergeTypes(combined, projectTypes) ==
    IF projectTypes = << >> THEN combined
    ELSE MergeTypes(MergeType(combined, Head(projectTypes)), Tail(projectTypes))

AppendNew(list, entry) ==
    IF \E i \in DOMAIN list : list[i] = entry THEN list ELSE Append(list, entry)

\* [...new Set(list)]: the entries in the order of their first occurrence
RECURSIVE Unique(_)
Unique(list) ==
    IF list = << >> THEN << >>
    ELSE AppendNew(Unique(SubSeq(list, 1, Len(list) - 1)), list[Len(list)])

\* lines 424-427, as if the duplicates were not removed
RemoveDuplicates_kept(combined) == combined

\* lines 424-427: Remove duplicates
RemoveDuplicates(combined) ==
    IF combined.threw THEN combined
    ELSE Combined(Unique(combined.files), Unique(combined.folders),
                  Unique(combined.extensions))

\* lines 406-429
getDefaultIgnorePatterns(projectTypes) ==
    RemoveDuplicates(MergeTypes(Combined(COMMON_IGNORE_PATTERNS.files,
                                         COMMON_IGNORE_PATTERNS.folders,
                                         COMMON_IGNORE_PATTERNS.extensions),
                                projectTypes))

(***************************************************************************)
(* loadConfig, the part that merges the default ignore patterns of the     *)
(* detected types into the configuration.  A list of the configuration is  *)
(* given or not (undefined).                                               *)
(***************************************************************************)
Given(list) == [defined |-> TRUE, list |-> list]
NotGiven == [defined |-> FALSE, list |-> << >>]

\* lines 103-111: mergeArrays(existing, defaults)
mergeArrays(existing, defaults) ==
    IF ~existing.defined \/ existing.list = << >> THEN defaults
    ELSE Unique(existing.list \o defaults)

IndexOfType(list, name) ==
    IF \E i \in DOMAIN list : list[i] = name
    THEN CHOOSE i \in DOMAIN list : list[i] = name /\ \A j \in 1..(i - 1) : list[j] # name
    ELSE 0

\* detectedTypes.splice(at, 1)
Splice(list, at) == SubSeq(list, 1, at - 1) \o SubSeq(list, at + 1, Len(list))

\* lines 60-71: Deno is moved to the front when deno.json or deno.jsonc exists
\* and Deno is detected but not first (indexOf counting from 0)
PreferDeno(detectedTypes, hasDenoJson) ==
    IF hasDenoJson /\ IndexOfType(detectedTypes, "Deno") > 1
    THEN <<"Deno">> \o Splice(detectedTypes, IndexOfType(detectedTypes, "Deno"))
    ELSE detectedTypes

\* lines 73-83: the primary type and the merged lists
ApplyDefaults(cfg, types, defaultPatterns) ==
    [auto_detect_project |-> cfg.auto_detect_project,
     project_type |-> types[1],
     ignoreFiles |-> Given(mergeArrays(cfg.ignoreFiles, defaultPatterns.files)),
     ignoreFolders |-> Given(mergeArrays(cfg.ignoreFolders, defaultPatterns.folders)),
     ignoreExtensions |->
         Given(mergeArrays(cfg.ignoreExtensions, defaultPatterns.extensions))]

\* lines 55-88: what loadConfig makes of the parsed configuration cfg when
\* detectProjectType has returned detectedTypes
LoadConfig(cfg, detectedTypes, hasDenoJson) ==
    IF cfg.auto_detect_project /\ Len(detectedTypes) > 0
    THEN ApplyDefaults(cfg, PreferDeno(detectedTypes, hasDenoJson),
                       getDefaultIgnorePatterns(PreferDeno(detectedTypes, hasDenoJson)))
    ELSE cfg

\* fileProcessor.ts lines 38-40: config.ignoreFiles || []
Effective(list) == IF list.defined THEN list.list ELSE << >>

(***************************************************************************)
(* The lists of project types and the configurations looked at.            *)
(***************************************************************************)
MaxTypes == 3

\* names of rules, a name without an entry, and a name inherited from
\* Object.prototype
TypeNames == {"Deno", "Node.js", "Go", "PHP", "Ruby", "Unknown", "constructor"}

RECURSIVE ListsOf(_, _)
ListsOf(names, n) ==
    IF n = 0 THEN {<< >>}
    ELSE ListsOf(names, n - 1)
            \cup {Append(l, name) : l \in {m \in ListsOf(names, n - 1) : Len(m) = n - 1},
                                    name \in names}

Distinct(list) == \A i, j \in DOMAIN list : i # j => list[i] # list[j]

TypeLists == {l \in ListsOf(TypeNames, MaxTypes) : Distinct(l)}

\* the lists of the configuration file: none; some that overlap the default
\* patterns; an entry given twice, an empty list
IgnoreLists ==
    { [ignoreFiles |-> NotGiven, ignoreFolders |-> NotGiven,
       ignoreExtensions |-> NotGiven],
      [ignoreFiles |-> Given(<<"notes.txt", ".env">>),
       ignoreFolders |-> Given(<<"vendor", "data">>),
       ignoreExtensions |-> NotGiven],
      [ignoreFiles |-> Given(<<"a.txt", "a.txt">>),
       ignoreFolders |-> Given(<< >>),
       ignoreExtensions |-> Given(<<".log">>)] }

\* line 46, 52: auto_detect_project, true unless switched off; line 73:
\* project_type
ParsedConfig(lists, autoDetect) ==
    [auto_detect_project |-> autoDetect,
     project_type |-> "",
     ignoreFiles |-> lists.ignoreFiles,
     ignoreFolders |-> lists.ignoreFolders,
     ignoreExtensions |-> lists.ignoreExtensions]

ParsedConfigs == {ParsedConfig(lists, autoDetect) : lists \in IgnoreLists,
                                                    autoDetect \in BOOLEAN}

\* what detectProjectType can return: at most three names of rules
Detectable(list) ==
    Len(list) <= 3 /\ \A i \in DOMAIN list : list[i] \in Elements(SourceOrder)

(***************************************************************************)
(* The monitor.                                                            *)
(***************************************************************************)
NoTick ==
    [read |-> "none", text |-> EmptyStr, dispatched |-> FALSE, recognized |-> FALSE,
     kind |-> "none", filePath |-> EmptyStr, target |-> EmptyStr,
     fileContent |-> EmptyStr, search |-> EmptyStr, replace |-> EmptyStr]

\* the calls of start() that run a loop, each with the controller it makes
LoopIds == 1..MaxStarts

\* a loop is: not started; awaiting getClipboardText inside checkClipboard;
\* inside sleep(), awaiting its promise; past a resolved sleep, about to test
\* the condition of the while; or out of the try statement.  sleepOn is the
\* controller sleep() put its abort listener on, wokenBy what resolved it.
NoLoop == [pc |-> "none", sleepOn |-> 0, wokenBy |-> "none"]

\* no call of detectProjectType is made
NoPatterns == Combined(<< >>, << >>, << >>)

IgnoreFields(configs, lists, flags) ==
    /\ parsedConfig \in configs
    /\ typesGiven \in lists
    /\ denoJson \in flags
    /\ ignorePatterns = NoPatterns
    /\ config = parsedConfig
    /\ called = {}

IgnoreIdle ==
    IgnoreFields({ParsedConfig(CHOOSE lists \in IgnoreLists :
                                  ~lists.ignoreFiles.defined, TRUE)},
                 {<< >>}, {FALSE})

DetectIdle ==
    /\ IgnoreIdle
    /\ directory = Directory({}, {}, "other")
    /\ fsCondition = "none"
    /\ rulesTable = SourceOrder
    /\ runs = 0
    /\ outcome = NoOutcome
    /\ firstOutcome = NoOutcome

\* the monitor as constructed, with one setting of its options
MonitorFields(settings) ==
    /\ options \in settings
    /\ isRunning = FALSE
    /\ abortController = 0
    /\ abortedSignals = {}
    /\ loops = [k \in LoopIds |-> NoLoop]
    /\ signalListeners = {}
    /\ cancelled = {}
    /\ pollFailed = FALSE
    /\ baseProjectDirAbs = Null
    /\ lastClipboardContent = EmptyStr
    /\ fs = InitialDisk.fs
    /\ dirs = InitialDisk.dirs
    /\ ops = << >>
    /\ log = << >>
    /\ tick = NoTick
    /\ polls = 0

\* the monitor is constructed and never started
MonitorIdle == MonitorFields({[projectDir |-> <<"/", "p">>, verbose |-> FALSE]})

Init ==
    /\ DetectIdle
    /\ MonitorFields([projectDir : ProjectDirs, verbose : BOOLEAN])

\* lines 48-49: the signals start() listens to, and the listeners of the
\* handleShutdown of one call of start()
Signals == {"SIGINT", "SIGTERM"}
Handlers(k) == {<<sig, k>> : sig \in Signals}

\* abortController.signal.aborted
SignalAborted == abortController \in abortedSignals

\* the condition of the while of start()
LoopContinues == isRunning /\ ~SignalAborted

\* the model follows no more than MaxPolls polls to their end
PollAllowed == polls < MaxPolls

\* start(), up to the first await: a fresh abort controller, the project
\* directory made absolute, the signal listeners registered, the while entered
\* and checkClipboard called
start(k) ==
    /\ ~isRunning
    /\ loops[k].pc = "none"
    /\ \A j \in 1..(k - 1) : loops[j].pc # "none"
    /\ isRunning' = TRUE
    /\ abortController' = k
    /\ baseProjectDirAbs' = normalize(resolve(<<options.projectDir>>))
    /\ signalListeners' = signalListeners \cup Handlers(k)
    /\ loops' = [loops EXCEPT ![k].pc = "reading"]
    /\ UNCHANGED <<detectVars, options, abortedSignals, cancelled, pollFailed,
                   lastClipboardContent, fs, dirs, ops, log, tick, polls>>

\* stop(), also what handleShutdown does on SIGINT and SIGTERM: abort() runs
\* the abort listeners of the sleeps in progress, which resolve their promises
stop ==
    /\ isRunning
    /\ isRunning' = FALSE
    /\ abortedSignals' = abortedSignals \cup {abortController}
    /\ loops' = [k \in LoopIds |->
                    IF loops[k].pc = "sleeping" /\ loops[k].sleepOn = abortController
                       /\ ~SignalAborted
                    THEN [loops[k] EXCEPT !.pc = "resumed", !.wokenBy = "abort"]
                    ELSE loops[k]]
    /\ cancelled' = {k \in LoopIds : loops[k].pc \in {"reading", "sleeping", "resumed"}}
    /\ UNCHANGED <<detectVars, options, abortController, signalListeners, pollFailed,
                   baseProjectDirAbs, lastClipboardContent, fs, dirs, ops, log,
                   tick, polls>>

\* sleep(): the timer and the abort listener on the current controller's signal
Sleep(loop) == [loop EXCEPT !.pc = "sleeping", !.sleepOn = abortController,
                            !.wokenBy = "none"]

\* the timer of a sleep expires
timerFires(k) ==
    /\ loops[k].pc = "sleeping"
    /\ loops' = [loops EXCEPT ![k].pc = "resumed", ![k].wokenBy = "timer"]
    /\ UNCHANGED <<detectVars, options, isRunning, abortController, abortedSignals,
                   signalListeners, cancelled, pollFailed, baseProjectDirAbs,
                   lastClipboardContent, fs, dirs, ops, log, tick, polls>>

\* the while of start() after a sleep: the next checkClipboard is called
loopAgain(k) ==
    /\ loops[k].pc = "resumed"
    /\ LoopContinues
    /\ loops' = [loops EXCEPT ![k].pc = "reading"]
    /\ UNCHANGED <<detectVars, options, isRunning, abortController, abortedSignals,
                   signalListeners, cancelled, pollFailed, baseProjectDirAbs,
                   lastClipboardContent, fs, dirs, ops, log, tick, polls>>

\* the while of start() after a sleep, as if the finally block lacked line 62,
\* Deno.removeSignalListener("SIGTERM", handleShutdown)
loopExit_keepsSIGTERM(k) ==
    /\ loops[k].pc = "resumed"
    /\ ~LoopContinues
    /\ loops' = [loops EXCEPT ![k].pc = "done"]
    /\ signalListeners' = signalListeners \ {<<"SIGINT", k>>}
    /\ UNCHANGED <<detectVars, options, isRunning, abortController, abortedSignals,
                   cancelled, pollFailed, baseProjectDirAbs,
                   lastClipboardContent, fs, dirs, ops, log, tick, polls>>

\* the while of start() after a sleep: the loop is left and the finally block
\* removes the two signal listeners
loopExit(k) ==
    /\ loops[k].pc = "resumed"
    /\ ~LoopContinues
    /\ loops' = [loops EXCEPT ![k].pc = "done"]
    /\ signalListeners' = signalListeners \ Handlers(k)
    /\ UNCHANGED <<detectVars, options, isRunning, abortController, abortedSignals,
                   cancelled, pollFailed, baseProjectDirAbs,
                   lastClipboardContent, fs, dirs, ops, log, tick, polls>>

CheckClassified(disk, base, last, clipboardContent, c, verbose, fault) ==
    IF clipboardContent = last \/ c.blank
    THEN Untouched(disk, "skipped", << >>)
    ELSE IF ~c.fileReplacement
    THEN Untouched(disk, "unrecognized", << >>)
    ELSE processClipboardContent(disk, base, clipboardContent, verbose, fault)

\* what checkClipboard() does when getClipboardText returns clipboardContent
CheckResult(disk, base, last, clipboardContent, verbose, fault) ==
    CheckClassified(disk, base, last, clipboardContent,
                    Classified[clipboardContent], verbose, fault)

\* line 80, as if the text were remembered only once it is recognized as a payload
LastSeen_whenRecognized(last, clipboardContent, kind) ==
    IF kind \in {"skipped", "unrecognized"} THEN last ELSE clipboardContent

\* lines 77-80: this.lastClipboardContent = clipboardContent unless the poll
\* returned at line 78
LastSeen(last, clipboardContent, kind) ==
    IF kind = "skipped" THEN last ELSE clipboardContent

\* checkClipboard() from the return of getClipboardText on, then sleep() called
checkClipboard(k, clipboardContent, fault) ==
    /\ loops[k].pc = "reading"
    /\ PollAllowed
    /\ fault = "none" \/ clipboardContent \in FaultTexts
    /\ \E r \in {CheckResult([fs |-> fs, dirs |-> dirs], baseProjectDirAbs,
                             lastClipboardContent, clipboardContent,
                             options.verbose, fault)} :
          /\ lastClipboardContent' = LastSeen(lastClipboardContent, clipboardContent,
                                              r.kind)
          /\ fs' = r.disk.fs
          /\ dirs' = r.disk.dirs
          /\ ops' = r.ops
          /\ log' = r.log
          /\ tick' = [read |-> "text", text |-> clipboardContent,
                      dispatched |-> r.kind # "skipped",
                      recognized |-> r.kind \notin {"skipped", "unrecognized"},
                      kind |-> r.kind, filePath |-> r.filePath, target |-> r.target,
                      fileContent |-> r.fileContent, search |-> r.search,
                      replace |-> r.replace]
          /\ pollFailed' = (pollFailed \/ \E i \in DOMAIN r.ops : ~r.ops[i].ok)
    /\ polls' = polls + 1
    /\ loops' = [loops EXCEPT ![k] = Sleep(loops[k])]
    /\ UNCHANGED <<detectVars, options, isRunning, abortController, abortedSignals,
                   signalListeners, cancelled, baseProjectDirAbs>>

\* checkClipboard() when getClipboardText throws, as if lines 84-91 threw the
\* error on: the while is left and the finally block of start() runs
checkClipboardFails_escapes(k, failure) ==
    /\ loops[k].pc = "reading"
    /\ PollAllowed
    /\ pollFailed' = TRUE
    /\ log' = <<Msg("monitor:error", EmptyStr, EmptyStr)>>
    /\ ops' = << >>
    /\ tick' = [NoTick EXCEPT !.read = "error", !.kind = "clipboarderror"]
    /\ polls' = polls + 1
    /\ loops' = [loops EXCEPT ![k].pc = "done"]
    /\ signalListeners' = signalListeners \ Handlers(k)
    /\ UNCHANGED <<detectVars, options, isRunning, abortController, abortedSignals,
                   cancelled, baseProjectDirAbs, lastClipboardContent, fs, dirs>>

\* checkClipboard() when getClipboardText throws, then sleep() called
checkClipboardFails(k, failure) ==
    /\ loops[k].pc = "reading"
    /\ PollAllowed
    /\ pollFailed' = TRUE
    /\ log' = IF options.verbose
                 /\ (~failure.isClipboardError \/ ~failure.noTextFound)
              THEN <<Msg("clipboard:error", EmptyStr, EmptyStr)>> ELSE << >>
    /\ ops' = << >>
    /\ tick' = [NoTick EXCEPT !.read = "error",
                              !.kind = IF failure.isClipboardError
                                          /\ failure.noTextFound
                                       THEN "clipboardempty"
                                       ELSE "clipboarderror"]
    /\ polls' = polls + 1
    /\ loops' = [loops EXCEPT ![k] = Sleep(loops[k])]
    /\ UNCHANGED <<detectVars, options, isRunning, abortController, abortedSignals,
                   signalListeners, cancelled, baseProjectDirAbs,
                   lastClipboardContent, fs, dirs>>

Start == \E k \in LoopIds : start(k)

\* the texts a poll can read: all of them at the first poll of the first
\* start(), the basic ones and a blank one after that
TextsRead ==
    IF polls > 0 \/ \E k \in LoopIds : k > 1 /\ loops[k].pc # "none"
    THEN FaultTexts \cup {<<SP, NL>>} ELSE Texts

Poll == \E k \in LoopIds, clipboardContent \in TextsRead, fault \in Faults :
            checkClipboard(k, clipboardContent, fault)

PollFails == \E k \in LoopIds, failure \in ClipboardFailures :
                 checkClipboardFails(k, failure)

TimerFires == \E k \in LoopIds : timerFires(k)

LoopAgain == \E k \in LoopIds : loopAgain(k)

LoopExit == \E k \in LoopIds : loopExit(k)

Next == Start \/ stop \/ Poll \/ PollFails \/ TimerFires \/ LoopAgain \/ LoopExit

Spec == Init /\ [][Next]_vars

(***************************************************************************)
(* Detection: detectProjectType called time after time in one process on a *)
(* directory that does not change.                                         *)
(***************************************************************************)
InitDetect ==
    /\ MonitorIdle
    /\ IgnoreIdle
    /\ directory \in Directories
    /\ fsCondition \in Conditions
    /\ rulesTable = SourceOrder
    /\ runs = 0
    /\ outcome = NoOutcome
    /\ firstOutcome = NoOutcome

Outcome(r) == [threw |-> r.threw, detectedTypes |-> r.detectedTypes, names |-> r.names]

\* one call of detectProjectType(directory), kept when keep(r) holds of what
\* it yields
detect(r) ==
    /\ runs < MaxRuns
    /\ rulesTable' = r.rules
    /\ outcome' = Outcome(r)
    /\ firstOutcome' = IF runs = 0 THEN Outcome(r) ELSE firstOutcome
    /\ runs' = runs + 1
    /\ UNCHANGED <<directory, fsCondition, monitorVars, ignoreVars>>

\* the call returns its list
detectReturns ==
    \E r \in {DetectProjectType(rulesTable, directory, fsCondition)} :
        ~r.threw /\ detect(r)

\* the call ends with the error exists() threw
detectThrows ==
    \E r \in {DetectProjectType(rulesTable, directory, fsCondition)} :
        r.threw /\ detect(r)

NextDetect == detectReturns \/ detectThrows

SpecDetect == InitDetect /\ [][NextDetect]_vars

(***************************************************************************)
(* The ignore patterns: getDefaultIgnorePatterns is called on a list of    *)
(* project types, and loadConfig merges the patterns of the detected types *)
(* into a parsed configuration.                                            *)
(***************************************************************************)
InitIgnore ==
    /\ MonitorIdle
    /\ directory = Directory({}, {}, "other")
    /\ fsCondition = "none"
    /\ rulesTable = SourceOrder
    /\ runs = 0
    /\ outcome = NoOutcome
    /\ firstOutcome = NoOutcome
    /\ IgnoreFields(ParsedConfigs, TypeLists, BOOLEAN)

Calls(name) ==
    /\ name \notin called
    /\ called' = called \cup {name}
    /\ UNCHANGED <<parsedConfig, typesGiven, denoJson, monitorVars, directory,
                   fsCondition, rulesTable, runs, outcome, firstOutcome>>

\* a call of getDefaultIgnorePatterns(typesGiven)
resolveDefaults ==
    /\ Calls("getDefaultIgnorePatterns")
    /\ ignorePatterns' = getDefaultIgnorePatterns(typesGiven)
    /\ UNCHANGED config

\* a call of loadConfig in which detectProjectType returns typesGiven
loadConfig ==
    /\ Detectable(typesGiven)
    /\ Calls("loadConfig")
    /\ config' = LoadConfig(parsedConfig, typesGiven, denoJson)
    /\ UNCHANGED ignorePatterns

NextIgnore == resolveDefaults \/ loadConfig

SpecIgnore == InitIgnore /\ [][NextIgnore]_vars

(***************************************************************************)
(* Notions the properties are stated in, computed without the operators    *)
(* of the model above.                                                     *)
(***************************************************************************)
\* needle stands in hay after i characters
At(hay, i, needle) ==
    i + Len(needle) <= Len(hay) /\ SubSeq(hay, i + 1, i + Len(needle)) = needle

\* needle occurs in hay
Occurs(hay, needle) == \E i \in 0..Len(hay) : At(hay, i, needle)

\* the segments of a path, read off the positions of its separators
SegmentsOf(path) ==
    LET ends == {i \in 1..Len(path) :
                    path[i] # "/" /\ (i = Len(path) \/ path[i + 1] = "/")}
        startOf(e) == CHOOSE b \in 1..e :
                          /\ \A j \in b..e : path[j] # "/"
                          /\ b = 1 \/ path[b - 1] = "/"
    IN {SubSeq(path, startOf(e), e) : e \in ends}

\* path lies below root: root plus a separator is a proper prefix of it (the
\* root directory "/" is its own separator)
StrictlyInside(root, path) ==
    LET prefix == IF root = SLASH THEN root ELSE root \o SLASH
    IN /\ Len(path) > Len(prefix)
       /\ SubSeq(path, 1, Len(prefix)) = prefix
       /\ \E i \in (Len(prefix) + 1)..Len(path) : path[i] # "/"

\* an absolute path without '.' or '..' segments or doubled separators
NormalizedAbsolute(path) ==
    /\ Len(path) > 0 /\ path[1] = "/"
    /\ \A i \in 1..(Len(path) - 1) : ~(path[i] = "/" /\ path[i + 1] = "/")
    /\ SegmentsOf(path) \cap {DOT, DOTDOT} = {}

\* the text before the first newline
FirstLineOf(text) ==
    IF \E i \in 1..Len(text) : text[i] = NL
    THEN LET nl == CHOOSE i \in 1..Len(text) :
                      text[i] = NL /\ \A j \in 1..(i - 1) : text[j] # NL
         IN SubSeq(text, 1, nl - 1)
    ELSE text

\* the text after the first newline
AfterFirstLine(text) ==
    IF \E i \in 1..Len(text) : text[i] = NL
    THEN LET nl == CHOOSE i \in 1..Len(text) :
                      text[i] = NL /\ \A j \in 1..(i - 1) : text[j] # NL
         IN SubSeq(text, nl + 1, Len(text))
    ELSE EmptyStr

\* the first line that is not blank, leading blank lines being skipped
FirstNonEmptyLineOf(text) == FirstLineOf(TrimStart(text))

\* line is the '//' marker followed by a path
MarksPath(line) ==
    /\ Len(line) > 2 /\ line[1] = "/" /\ line[2] = "/"
    /\ \E i \in 3..Len(line) : line[i] \notin Whitespace

\* line, trimmed, is a path marker or a fence opening followed by one
IsEditLine(line) ==
    LET t == Trim(line)
    IN \/ MarksPath(t)
       \/ /\ Len(t) >= 3 /\ SubSeq(t, 1, 3) = FENCE
          /\ MarksPath(Trim(SubSeq(t, 4, Len(t))))

\* the first line of the text opens with a fence
OpensWithFence(text) ==
    LET t == Trim(FirstLineOf(text))
    IN Len(t) >= 3 /\ SubSeq(t, 1, 3) = FENCE

\* the three tokens occur one after the other, in the documented order
TokensInOrder(text) ==
    \E i, j, k \in 0..Len(text) :
        /\ At(text, i, SEARCH_TOKEN)
        /\ i + Len(SEARCH_TOKEN) <= j
        /\ At(text, j, SEPARATOR_TOKEN)
        /\ j + Len(SEPARATOR_TOKEN) <= k
        /\ At(text, k, REPLACE_TOKEN)

\* the poll just made produced an edit operation
YieldsOperation(t) == t.kind \in {"blocked", "searchreplace", "wholefile"}

Logged(messages, tag) == \E i \in DOMAIN messages : messages[i][1] = tag

(***************************************************************************)
(* C1.  Every file a poll reads or writes, and every file whose parent     *)
(* directory it creates, has a normalized absolute path strictly below the *)
(* project root: the relative path from the root to it is non-empty, does  *)
(* not start with '..' and is not absolute.  A poll whose declared path    *)
(* resolves to the root or to a place outside it makes no filesystem call. *)
(***************************************************************************)
C1_PathsStayInsideRoot ==
    /\ \A i \in DOMAIN ops :
          LET P == ops[i].file
              rel == relative(baseProjectDirAbs, P)
          IN /\ baseProjectDirAbs # Null
             /\ NormalizedAbsolute(P)
             /\ StrictlyInside(baseProjectDirAbs, P)
             /\ rel # EmptyStr /\ ~StartsWith(rel, DOTDOT) /\ ~isAbsolute(rel)
    /\ tick.recognized
          => LET declared == IF isAbsolute(tick.filePath) THEN tick.filePath
                             ELSE baseProjectDirAbs \o SLASH \o tick.filePath
             IN ~StrictlyInside(baseProjectDirAbs, normalize(declared)) => ops = << >>

C1_Witness ==
    /\ polls = 2
    /\ tick.kind = "wholefile"
    /\ \E i \in DOMAIN ops : ops[i].op = "write" /\ ops[i].ok

(***************************************************************************)
(* C2.  The declared path is accepted unless the relative path from the    *)
(* root to the normalized target is empty, begins with the segment '..' or *)
(* is absolute; a target below the root whose first segment merely begins  *)
(* with two dots is accepted, and accepted targets are used unchanged.     *)
(***************************************************************************)
C2_RejectsExactlyOutsideRoot ==
    YieldsOperation(tick)
       => LET target == TargetPathAbs(baseProjectDirAbs, tick.filePath)
              rel == relative(baseProjectDirAbs, target)
              rejected == \/ rel = EmptyStr
                          \/ Split(rel, "/")[1] = DOTDOT
                          \/ isAbsolute(rel)
          IN /\ (tick.kind = "blocked") = rejected
             /\ tick.target = target

(***************************************************************************)
(* C3.  A search-and-replace edit that is applied writes the old content   *)
(* with the first occurrence of the search text replaced by the            *)
(* replacement text, character for character; the rest is unchanged.       *)
(***************************************************************************)
C3_ReplacesFirstOccurrenceLiterally ==
    (/\ tick.kind = "searchreplace"
     /\ Len(ops) = 2 /\ ops[1].op = "read" /\ ops[2].op = "write")
       => LET old == ops[1].content
              at == CHOOSE i \in 0..Len(old) :
                       /\ At(old, i, tick.search)
                       /\ \A j \in 0..(i - 1) :
                             ~At(old, j, tick.search)
          IN ops[2].content =
                SubSeq(old, 1, at) \o tick.replace
                \o SubSeq(old, at + Len(tick.search) + 1, Len(old))

(***************************************************************************)
(* C4.  When the search text of a search-and-replace edit does not occur   *)
(* in the target file, the poll writes nothing, the disk after the poll is *)
(* the disk before it, and 'pattern not found' is reported.                *)
(***************************************************************************)
C4_SearchNotFoundLeavesFile ==
    [][ (/\ polls' # polls
         /\ tick'.kind = "searchreplace"
         /\ tick'.search # EmptyStr
         /\ ops' # << >> /\ ops'[1].op = "read" /\ ops'[1].ok
         /\ ~Occurs(fs[tick'.target], tick'.search))
        => /\ \A i \in DOMAIN ops' : ops'[i].op # "write"
           /\ fs' = fs /\ dirs' = dirs
           /\ Logged(log', "sr:notfound") ]_vars

C4_Witness ==
    /\ tick.kind = "searchreplace"
    /\ Len(ops) = 1 /\ ops[1].ok
    /\ ~Occurs(ops[1].content, tick.search)
    /\ Logged(log, "sr:notfound")

(***************************************************************************)
(* C5.  When a text classified as search-and-replace has nothing but       *)
(* whitespace between the begin-search marker and the separator, the edit  *)
(* is rejected as an empty search pattern and the poll reads and writes no *)
(* file.                                                                   *)
(***************************************************************************)
EmptySearchBlock(text) ==
    \E i \in 0..Len(text) :
        /\ At(text, i, SEARCH_TOKEN)
        /\ \A h \in 0..(i - 1) :
              ~At(text, h, SEARCH_TOKEN)
        /\ \E j \in (i + Len(SEARCH_TOKEN))..Len(text) :
              /\ At(text, j, SEPARATOR_TOKEN)
              /\ \A h \in 0..(j - 1) :
                    ~At(text, h, SEPARATOR_TOKEN)
              /\ \A h \in (i + Len(SEARCH_TOKEN) + 1)..j : text[h] \in Whitespace

C5_EmptySearchRejected ==
    (tick.kind = "searchreplace" /\ EmptySearchBlock(tick.text))
       => /\ ops = << >>
          /\ Logged(log, "sr:empty")
          /\ ~Logged(log, "sr:replaced")

C5_Witness ==
    /\ tick.kind = "searchreplace"
    /\ EmptySearchBlock(tick.text)
    /\ Logged(log, "sr:empty")

(***************************************************************************)
(* C6.  A recognized text is handled as search-and-replace only if it      *)
(* holds the three tokens in the order SEARCH, separator, REPLACE; with a  *)
(* token missing or the tokens out of order it is handled as a whole file. *)
(***************************************************************************)
C6_SearchReplaceOnlyInOrder ==
    tick.kind \in {"searchreplace", "wholefile"}
       => ((tick.kind = "searchreplace") = TokensInOrder(tick.text))

(***************************************************************************)
(* C7.  As claimed: a dispatched text yields an operation exactly when its *)
(* first non-empty line, leading blank lines being skipped, is a path      *)
(* marker followed by a path or a fence opening followed by one.           *)
(***************************************************************************)
C7_FirstNonEmptyLineDecides ==
    tick.dispatched
       => (YieldsOperation(tick) = IsEditLine(FirstNonEmptyLineOf(tick.text)))

(***************************************************************************)
(* C7, amended.  A dispatched text yields an operation exactly when its    *)
(* first line -- the text before the first newline, leading blank lines    *)
(* not being skipped -- is, once trimmed, a path marker followed by a path *)
(* or a fence opening followed by one.                                     *)
(***************************************************************************)
C7_FirstLineDecides ==
    tick.dispatched
       => (YieldsOperation(tick) = IsEditLine(FirstLineOf(tick.text)))

C7_Witness ==
    /\ tick.dispatched
    /\ YieldsOperation(tick)
    /\ OpensWithFence(tick.text)

(***************************************************************************)
(* C8.  A poll that dispatches a text which is not a recognized pattern,   *)
(* or whose marker line carries an empty path, makes no filesystem call,   *)
(* leaves the disk as it was, reports nothing but the verbose note, and    *)
(* leaves the loop running.                                                *)
(***************************************************************************)
C8_UnrecognizedTouchesNothing ==
    [][ (/\ polls' # polls
         /\ tick'.dispatched
         /\ ~IsEditLine(FirstLineOf(tick'.text)))
        => /\ ops' = << >>
           /\ fs' = fs /\ dirs' = dirs
           /\ \A i \in DOMAIN log' : log'[i][1] = "nopath" /\ options.verbose
           /\ isRunning' = isRunning /\ abortedSignals' = abortedSignals ]_vars

C8_Witness ==
    /\ polls = 1
    /\ isRunning
    /\ tick.dispatched
    /\ ~IsEditLine(FirstLineOf(tick.text))
    /\ tick.kind = "nopath"

(***************************************************************************)
(* C9.  For a whole-file text whose first line is not fenced, the declared *)
(* path is the first line without the '//' marker and the whitespace       *)
(* around it, and the content, which is what is written, is exactly the    *)
(* text after the first newline.                                           *)
(***************************************************************************)
C9_UnfencedWholeFileParse ==
    (tick.kind = "wholefile" /\ ~OpensWithFence(tick.text))
       => LET line == Trim(FirstLineOf(tick.text))
          IN /\ tick.filePath = Trim(SubSeq(line, 3, Len(line)))
             /\ tick.fileContent = AfterFirstLine(tick.text)
             /\ \A i \in DOMAIN ops :
                   ops[i].op = "write" => ops[i].content = AfterFirstLine(tick.text)

C9_Witness ==
    /\ tick.kind = "wholefile"
    /\ ~OpensWithFence(tick.text)
    /\ tick.filePath = <<"a">>
    /\ tick.fileContent = <<"y", NL>>
    /\ \E i \in DOMAIN ops : ops[i].op = "write" /\ ops[i].ok

(***************************************************************************)
(* C10.  For a whole-file text whose first line opens with a fence, the    *)
(* content handed to the writer does not end with a closing fence line,    *)
(* whether or not a newline follows the closing fence in the text.         *)
(***************************************************************************)
EndsWithFenceLine(content) ==
    LET body == IF Len(content) > 0 /\ content[Len(content)] = NL
                THEN SubSeq(content, 1, Len(content) - 1) ELSE content
        lines == Split(body, NL)
    IN Trim(lines[Len(lines)]) = FENCE

C10_ClosingFenceRemoved ==
    (tick.kind = "wholefile" /\ OpensWithFence(tick.text))
       => /\ ~EndsWithFenceLine(tick.fileContent)
          /\ \A i \in DOMAIN ops :
                ops[i].op = "write" => ~EndsWithFenceLine(ops[i].content)

(***************************************************************************)
(* C11.  A whole-file edit on a safe path first creates the directory of   *)
(* the target with the directories above it, then writes; when the write   *)
(* succeeds the target holds exactly the content of the payload, whatever  *)
(* it held before and whether or not it existed, and no other file is      *)
(* changed.                                                                *)
(***************************************************************************)
\* the directories a path lies in: what stands before each of its separators,
\* those at its end left aside
DirectoriesAbove(path) ==
    {IF i = 1 THEN SLASH ELSE SubSeq(path, 1, i - 1) :
        i \in {j \in 1..Len(path) :
                  path[j] = "/" /\ \E l \in (j + 1)..Len(path) : path[l] # "/"}}

\* the directory a path lies in directly
ParentOf(path) ==
    CHOOSE d \in DirectoriesAbove(path) :
        \A e \in DirectoriesAbove(path) : Len(e) <= Len(d)

C11_WholeFileCreatesThenWrites ==
    [][ (/\ polls' # polls
         /\ tick'.kind = "wholefile")
        => /\ Len(ops') >= 1
           /\ ops'[1].op = "mkdir" /\ ops'[1].path = ParentOf(tick'.target)
           /\ Len(ops') = 2 => /\ ops'[1].ok
                               /\ ops'[2].op = "write"
                               /\ ops'[2].path = tick'.target
                               /\ ops'[2].content = tick'.fileContent
           /\ (Len(ops') = 2 /\ ops'[2].ok)
                 => /\ DirectoriesAbove(tick'.target) \subseteq dirs'
                    /\ DOMAIN fs' = DOMAIN fs \cup {tick'.target}
                    /\ fs'[tick'.target] = tick'.fileContent
                    /\ \A q \in DOMAIN fs : q # tick'.target => fs'[q] = fs[q] ]_vars

\* a file has been created in a directory that did not exist, and then a file
\* that existed with other content has been overwritten
C11_Witness ==
    /\ tick.kind = "wholefile"
    /\ Len(ops) = 2 /\ ops[2].ok
    /\ tick.target \in DOMAIN InitialDisk.fs
    /\ InitialDisk.fs[tick.target] # tick.fileContent
    /\ fs[tick.target] = tick.fileContent
    /\ \E q \in DOMAIN fs \ DOMAIN InitialDisk.fs : ParentOf(q) \notin InitialDisk.dirs

(***************************************************************************)
(* C12.  As stated: a poll dispatches the text it read if and only if the  *)
(* text differs from the last-seen text and is not the empty text, and a   *)
(* poll that does not dispatch changes neither the disk nor the fields of  *)
(* the monitor.                                                            *)
(***************************************************************************)
\* a poll that dispatches remembers the text; one that does not leaves the
\* disk and the fields of the monitor as they were
DispatchEffect ==
    /\ tick'.dispatched => lastClipboardContent' = tick'.text
    /\ ~tick'.dispatched
          => /\ fs' = fs /\ dirs' = dirs /\ ops' = << >> /\ log' = << >>
             /\ lastClipboardContent' = lastClipboardContent
             /\ isRunning' = isRunning
             /\ abortController' = abortController
             /\ abortedSignals' = abortedSignals
             /\ baseProjectDirAbs' = baseProjectDirAbs
             /\ signalListeners' = signalListeners

C12_DispatchesChangedNonEmpty ==
    [][ (polls' # polls /\ tick'.read = "text")
        => /\ tick'.dispatched <=> (/\ tick'.text # lastClipboardContent
                                    /\ tick'.text # EmptyStr)
           /\ DispatchEffect ]_vars

(***************************************************************************)
(* C12, amended.  A poll dispatches the text it read if and only if the    *)
(* text differs from the last-seen text and holds a character that is not  *)
(* whitespace; a poll that reads the last-seen text again, or a text of    *)
(* whitespace only, changes neither the disk nor the fields of the         *)
(* monitor.                                                                *)
(***************************************************************************)
OnlyWhitespace(text) == \A i \in DOMAIN text : text[i] \in Whitespace

C12_DispatchesChangedNonBlank ==
    [][ (polls' # polls /\ tick'.read = "text")
        => /\ tick'.dispatched <=> (/\ tick'.text # lastClipboardContent
                                    /\ ~OnlyWhitespace(tick'.text))
           /\ DispatchEffect ]_vars

\* after a dispatched text, a poll has read whitespace and dispatched nothing
C12_Witness ==
    /\ polls = 2
    /\ tick.read = "text"
    /\ ~tick.dispatched
    /\ tick.text # EmptyStr /\ OnlyWhitespace(tick.text)
    /\ lastClipboardContent # EmptyStr
    /\ tick.text # lastClipboardContent

(***************************************************************************)
(* C13.  A poll in which the clipboard read, a file read, a mkdir or a     *)
(* write fails leaves the monitor running: the loop that polled goes to    *)
(* its sleep, no other loop is disturbed, no file is changed, no call      *)
(* follows the failed one, and a valid payload read by a later poll is     *)
(* applied.                                                                *)
(***************************************************************************)
\* the place of the first failed call among the calls made, 0 when none failed
FirstFailure(calls) ==
    IF \A i \in DOMAIN calls : calls[i].ok THEN 0
    ELSE CHOOSE i \in DOMAIN calls :
             ~calls[i].ok /\ \A j \in 1..(i - 1) : calls[j].ok

C13_LoopSurvivesFailure ==
    [][ /\ (/\ polls' # polls
            /\ tick'.read = "error" \/ FirstFailure(ops') # 0)
           => /\ isRunning' = isRunning
              /\ abortedSignals' = abortedSignals
              /\ signalListeners' = signalListeners
              /\ \A k \in LoopIds :
                    IF loops[k].pc = "reading" /\ loops'[k].pc # "reading"
                    THEN loops'[k].pc = "sleeping"
                    ELSE loops'[k] = loops[k]
              /\ fs' = fs
              /\ FirstFailure(ops') \in {0, Len(ops')}
        /\ (/\ polls' # polls
            /\ pollFailed
            /\ tick'.kind = "wholefile"
            /\ FirstFailure(ops') = 0)
           => fs'[tick'.target] = tick'.fileContent ]_vars

\* after a poll in which a call failed, a loop still running has polled again
\* and written the file a valid payload named
C13_Witness ==
    /\ polls = 2
    /\ pollFailed
    /\ isRunning
    /\ tick.kind = "wholefile"
    /\ FirstFailure(ops) = 0
    /\ fs[tick.target] = tick.fileContent
    /\ tick.target \in DOMAIN InitialDisk.fs
    /\ fs[tick.target] # InitialDisk.fs[tick.target]
    /\ \E k \in LoopIds : loops[k].pc = "sleeping"

(***************************************************************************)
(* C14.  Every poll in which an input or output call fails, the clipboard  *)
(* read for want of the clipboard command included, prints an error        *)
(* message.  (A clipboard error saying that the clipboard holds no text is *)
(* not counted as a failure.)                                              *)
(***************************************************************************)
ErrorTags == {"clipboard:error", "sr:ioerror", "wf:error", "monitor:error"}

C14_EveryFailureReported ==
    (tick.kind = "clipboarderror" \/ FirstFailure(ops) # 0)
       => \E i \in DOMAIN log : log[i][1] \in ErrorTags

(***************************************************************************)
(* C15.  Once stop() has run (called directly or by the SIGINT or SIGTERM  *)
(* handler), no loop that was running at that moment calls checkClipboard  *)
(* again: a poll it had begun may end, no further one begins.              *)
(***************************************************************************)
BeginsPoll(k) == loops[k].pc # "reading" /\ loops'[k].pc = "reading"

C15_CancelledLoopPollsNoMore ==
    [][ \A k \in cancelled : ~BeginsPoll(k) ]_vars

(***************************************************************************)
(* C16.  When stop() runs while a loop is in its sleep, the sleep ends at  *)
(* once, by the abort and not by its timer, and what the loop does next is *)
(* to leave the while.                                                     *)
(***************************************************************************)
\* stop() takes effect in this step
Cancels == isRunning /\ ~isRunning'

C16_CancelledSleepEndsAndLoopExits ==
    [][ \A k \in LoopIds :
           /\ (Cancels /\ loops[k].pc = "sleeping")
                 => (loops'[k].pc = "resumed" /\ loops'[k].wokenBy = "abort")
           /\ (/\ loops[k].pc = "resumed" /\ loops[k].wokenBy = "abort"
               /\ loops'[k].pc # "resumed")
                 => loops'[k].pc = "done" ]_vars

ScanFailed(name) ==
    LET rule == RuleOf(PROJECT_DETECTION_RULES, name)
        files == {rule.files[i] : i \in DOMAIN rule.files}
    IN \/ /\ fsCondition = "statFails"
          /\ rule.folders # << >> \/ \E f \in files : ~NameIncludes(f, "*")
       \/ /\ fsCondition = "listingDenied"
          /\ \/ rule.patterns # << >>
             \/ \E f \in files : NameIncludes(f, "*")
             \/ name = "C/C++" /\ files \cap directory.files # {}
       \/ /\ fsCondition = "manifestUnreadable"
          /\ name = "React" /\ "package.json" \in directory.files

CandidateNames(detectedTypes) == {detectedTypes[i].name : i \in DOMAIN detectedTypes}

C18_NoScanErrorEscapes ==
    runs > 0
       => /\ ~outcome.threw
          /\ \A name \in CandidateNames(outcome.detectedTypes) : ~ScanFailed(name)
          /\ \A name \in Elements(SourceOrder) :
                ~ScanFailed(name)
                   => (name \in CandidateNames(outcome.detectedTypes)
                          <=> name \in CandidateNames(
                                  DetectProjectType(SourceOrder, directory,
                                                    "none").detectedTypes))

(***************************************************************************)
(* C19.  In the list of survivors, of every two candidates whose           *)
(* confidences differ by 0.2 or more the one of higher confidence comes    *)
(* first, of every two whose confidences differ by less than 0.2 the one   *)
(* of higher declared priority comes first, and the result is the names of *)
(* the first three (or fewer) candidates of the list.                      *)
(***************************************************************************)
\* the confidences num / den of a and b differ by one fifth or more
DifferByDelta(a, b) == 5 * Abs(Difference(a, b)) >= a.den * b.den

\* a may stand before b in the order of the claim
MayPrecede(a, b) ==
    IF DifferByDelta(a, b) THEN Difference(a, b) > 0 ELSE a.priority >= b.priority

C19_OrderedByConfidenceThenPriority ==
    (runs > 0 /\ ~outcome.threw)
       => /\ \A i, j \in DOMAIN outcome.detectedTypes :
                i < j => MayPrecede(outcome.detectedTypes[i], outcome.detectedTypes[j])
          /\ Len(outcome.names) = Len(TopNames(outcome.detectedTypes))
          /\ \A i \in DOMAIN outcome.names :
                outcome.names[i] = outcome.detectedTypes[i].name

(***************************************************************************)
(* C20.  A later call of detectProjectType in the same process on the      *)
(* unchanged directory returns the names the first call returned, in the   *)
(* same order, although the first call has sorted the shared table of      *)
(* rules in place.                                                         *)
(***************************************************************************)
C20_SecondRunSameNames ==
    runs >= 2
       => /\ outcome.threw = firstOutcome.threw
          /\ outcome.names = firstOutcome.names

\* two calls have returned, the table is no longer in the order of the source,
\* and two of the candidates compare equal, so that the order in which the
\* rules are scanned decides which of them is named first
C20_Witness ==
    /\ runs = 2
    /\ ~outcome.threw
    /\ rulesTable # SourceOrder
    /\ \E i, j \in DOMAIN outcome.detectedTypes :
          /\ i < j /\ i <= 3
          /\ CompareDetected(outcome.detectedTypes[i], outcome.detectedTypes[j]) = 0

(***************************************************************************)
(* C21.  The build-system files Makefile, CMakeLists.txt and configure.ac  *)
(* add weight to the C/C++ rule only when the top-level listing holds a    *)
(* C/C++ source file: a directory holding only a Makefile is not detected  *)
(* as C/C++, and with main.c added 'C/C++' is in the result.               *)
(***************************************************************************)
\* the files at the top of the directory that are C/C++ sources
TopLevelCppSources(dir) ==
    {f \in dir.files :
        \E ext \in {"c", "cpp", "cc", "cxx", "c++"} : NameEndsWith(f, "." \o ext)}

\* the candidates of that name among the survivors
CandidatesNamed(detectedTypes, name) ==
    {detectedTypes[i] : i \in {j \in DOMAIN detectedTypes : detectedTypes[j].name = name}}

\* 2 for each folder of the C/C++ rule that exists, 1 for each of its six patterns
WeightWithoutBuildFiles(dir) == 2 * Cardinality({"build", "obj"} \cap FolderNames(dir)) + 6

C21_BuildFilesNeedSources ==
    (runs > 0 /\ ~outcome.threw)
       => /\ (directory.files = {"Makefile"} /\ directory.folders = {})
                => CandidatesNamed(outcome.detectedTypes, "C/C++") = {}
          /\ (directory.files = {"Makefile", "main.c"} /\ fsCondition = "none")
                => "C/C++" \in Elements(outcome.names)
          /\ TopLevelCppSources(directory) = {}
                => \A c \in CandidatesNamed(outcome.detectedTypes, "C/C++") :
                      c.num <= WeightWithoutBuildFiles(directory)
          /\ \A c \in CandidatesNamed(outcome.detectedTypes, "C/C++") :
                c.num > WeightWithoutBuildFiles(directory)
                   => TopLevelCppSources(directory) # {}

\* the call has returned 'C/C++' for the directory of a Makefile and main.c,
\* the Makefile adding its 3 to the 1 of the pattern '*.c'
C21_Witness ==
    /\ runs > 0
    /\ directory.files = {"Makefile", "main.c"}
    /\ "C/C++" \in Elements(outcome.names)
    /\ \E c \in CandidatesNamed(outcome.detectedTypes, "C/C++") : c.num = 4

(***************************************************************************)
(* C24.  A pattern '*.ext' matches a file name exactly when the name ends  *)
(* with '.ext', in the check of the file indicators and in the check of    *)
(* the content patterns: '*.go' matches 'main.go' and not                  *)
(* 'algorithm.gold'.                                                       *)
(***************************************************************************)
\* the name is some stem followed by a dot and the extension
EndsWithExt(name, ext) ==
    \E n \in 0..Len(name) : name = SubSeq(name, 1, n) \o "." \o ext

\* the names the content patterns are tried on: the files at the top and
\* those of the source folders at the top
FilesSeen(dir) ==
    dir.files \cup UNION {f.files : f \in {g \in dir.folders : g.name \in SourceFolders}}

Points(condition, weight) == IF condition THEN weight ELSE 0

\* the raw score of the Go rule: 3 for go.mod and for go.sum, 2 for vendor/,
\* 1 for the content pattern '*.go'
GoWeight(dir) ==
    3 * Cardinality({"go.mod", "go.sum"} \cap dir.files)
  + 2 * Cardinality({"vendor"} \cap FolderNames(dir))
  + Points(\E f \in FilesSeen(dir) : EndsWithExt(f, "go"), 1)

\* the raw score of the Arduino rule: 4 for the file indicator '*.ino', 2 for
\* libraries/ and for hardware/, 1 for the content pattern '*.ino'
ArduinoWeight(dir) ==
    Points(\E f \in dir.files : EndsWithExt(f, "ino"), 4)
  + 2 * Cardinality({"libraries", "hardware"} \cap FolderNames(dir))
  + Points(\E f \in FilesSeen(dir) : EndsWithExt(f, "ino"), 1)

HasWeight(detectedTypes, name, weight) ==
    /\ \A c \in CandidatesNamed(detectedTypes, name) : c.num = weight
    /\ weight >= 2 => CandidatesNamed(detectedTypes, name) # {}

C24_ExtensionPatternAnchored ==
    (runs > 0 /\ fsCondition = "none")
       => /\ HasWeight(outcome.detectedTypes, "Go", GoWeight(directory))
          /\ HasWeight(outcome.detectedTypes, "Arduino", ArduinoWeight(directory))

\* the call has scored a directory of go.mod and algorithm.gold: the Go rule
\* has the 3 of go.mod and nothing for '*.go'
C24_Witness ==
    /\ runs > 0 /\ fsCondition = "none"
    /\ directory.files = {"go.mod", "algorithm.gold"}
    /\ \E c \in CandidatesNamed(outcome.detectedTypes, "Go") : c.num = 3

(***************************************************************************)
(* C25.  The normalized confidence of every surviving candidate, the       *)
(* quotient num / den, lies between 0 and 1 inclusive.                     *)
(***************************************************************************)
C25_ConfidenceWithinUnit ==
    runs > 0
       => \A i \in DOMAIN outcome.detectedTypes :
             /\ outcome.detectedTypes[i].den > 0
             /\ 0 <= outcome.detectedTypes[i].num
             /\ outcome.detectedTypes[i].num <= outcome.detectedTypes[i].den

(***************************************************************************)
(* C26.  A rule is among the candidates only if at least one of its        *)
(* indicators matched and its raw score is at least 2; a rule whose only   *)
(* match is one content pattern, as in a directory holding only '*.py'     *)
(* files, is not reported.                                                 *)
(***************************************************************************)
\* some indicator of the rule is there: one of its files or folders exists,
\* or a file seen ends as one of its '*.ext' entries asks, or a file or
\* folder seen bears the name of one of its patterns
SomeIndicatorThere(dir, rule) ==
    \/ \E i \in DOMAIN rule.files :
          \/ Exists(dir, rule.files[i])
          \/ \E f \in dir.files : NameStartsWith(rule.files[i], "*.")
                                     /\ EndsWithExt(f, AfterStar(rule.files[i]))
    \/ \E i \in DOMAIN rule.folders : Exists(dir, rule.folders[i])
    \/ \E i \in DOMAIN rule.patterns :
          \/ \E f \in FilesSeen(dir) : NameStartsWith(rule.patterns[i], "*.")
                                          /\ EndsWithExt(f, AfterStar(rule.patterns[i]))
          \/ rule.patterns[i] \in FilesSeen(dir) \cup AllDirs(dir)

C26_CandidatesMatchedAndScoreTwo ==
    runs > 0
       => /\ \A i \in DOMAIN outcome.detectedTypes :
                /\ outcome.detectedTypes[i].matchCount > 0
                /\ outcome.detectedTypes[i].num >= 2
                /\ SomeIndicatorThere(directory,
                                      RuleOf(PROJECT_DETECTION_RULES,
                                             outcome.detectedTypes[i].name))
          /\ (directory.files = {"algorithm.gold", "x.py"} /\ directory.folders = {})
                => outcome.names = << >>

\* the call has returned for a directory whose only match is the content
\* pattern '*.py' of the Python rule, which scores 1
C26_Witness ==
    /\ runs > 0 /\ fsCondition = "none"
    /\ directory.files = {"algorithm.gold", "x.py"}
    /\ ScanRule(directory, fsCondition, RuleOf(PROJECT_DETECTION_RULES, "Python")).num = 1
    /\ ScanRule(directory, fsCondition,
                RuleOf(PROJECT_DETECTION_RULES, "Python")).matchCount = 1
    /\ outcome.detectedTypes = << >>

(***************************************************************************)
(* C22.  For every list of detected types, the empty list included, and    *)
(* all lists of the user, each effective ignore list of the configuration  *)
(* holds exactly the common baseline patterns, the default patterns of     *)
(* each detected type that has an entry in the table, and the entries of   *)
(* the user, none of them twice.                                           *)
(***************************************************************************)
\* a list of the configuration and the list of the pattern tables it is fed from
IgnoreKinds ==
    {<<"ignoreFiles", "files">>, <<"ignoreFolders", "folders">>,
     <<"ignoreExtensions", "extensions">>}

\* the default patterns, of one kind, of the types of the list that have an entry
DefaultsOfTypes(types, kind) ==
    UNION {Elements(p[kind]) :
              p \in {q \in Elements(DEFAULT_IGNORE_PATTERNS) : q.name \in Elements(types)}}

UnionOfPatterns(types, given, kind) ==
    Elements(COMMON_IGNORE_PATTERNS[kind]) \cup DefaultsOfTypes(types, kind)
                                           \cup Elements(given.list)

C22_EffectiveIgnoreIsUnion ==
    ("loadConfig" \in called /\ parsedConfig.auto_detect_project)
       => \A k \in IgnoreKinds :
             /\ Elements(Effective(config[k[1]]))
                   = UnionOfPatterns(typesGiven, parsedConfig[k[1]], k[2])
             /\ Distinct(Effective(config[k[1]]))

(***************************************************************************)
(* C23.  The ignore set resolved for a list of detected types is, with     *)
(* files, folders and extensions compared as sets, the same for every      *)
(* permutation of the list.                                                *)
(***************************************************************************)
Reorderings(list) ==
    {l \in ListsOf(Elements(list), Len(list)) :
        Len(l) = Len(list) /\ Elements(l) = Elements(list)}

PatternSets(patterns) ==
    [threw |-> patterns.threw, files |-> Elements(patterns.files),
     folders |-> Elements(patterns.folders),
     extensions |-> Elements(patterns.extensions)]

EffectiveSets(cfg) ==
    [files |-> Elements(Effective(cfg.ignoreFiles)),
     folders |-> Elements(Effective(cfg.ignoreFolders)),
     extensions |-> Elements(Effective(cfg.ignoreExtensions))]

C23_IgnoreSetOrderIndependent ==
    /\ "getDefaultIgnorePatterns" \in called
          => \A l \in Reorderings(typesGiven) :
                PatternSets(getDefaultIgnorePatterns(l)) = PatternSets(ignorePatterns)
    /\ "loadConfig" \in called
          => \A l \in Reorderings(typesGiven) :
                EffectiveSets(LoadConfig(parsedConfig, l, denoJson))
                   = EffectiveSets(config)

\* getDefaultIgnorePatterns has been called on a list of two or more types
\* with entries, and the folders it lists come in another order when the
\* list is reversed
C23_Witness ==
    /\ "getDefaultIgnorePatterns" \in called
    /\ Len(typesGiven) >= 2
    /\ Elements(typesGiven) \subseteq TableKeys
    /\ ~ignorePatterns.threw
    /\ getDefaultIgnorePatterns(Reverse(typesGiven)).folders # ignorePatterns.folders

(***************************************************************************)
(* C27.  When cancellation is signaled while a poll is processed, the loop *)
(* exits after that poll without waiting for the interval timer: a poll    *)
(* never ends in a sleep on a signal that was aborted during the poll, a   *)
(* sleep that only the expiry of the timer ends.                           *)
(***************************************************************************)
\* loop k ends its poll and calls sleep()
EndsPoll(k) == loops[k].pc = "reading" /\ loops'[k].pc = "sleeping"

C27_CancelledPollExitsWithoutTimer ==
    [][\A k \in LoopIds : EndsPoll(k) => loops'[k].sleepOn \notin abortedSignals']_vars

(***************************************************************************)
(* C28.  Under every interleaving of start() and stop() on one monitor at  *)
(* most one polling loop is active at any time: at most one loop is in a   *)
(* poll or would, the way the fields stand, poll again after its sleep.    *)
(***************************************************************************)
\* loop k is in a poll, or is in its sleep, or past it, with the condition of
\* the while true
ActiveLoop(k) ==
    \/ loops[k].pc = "reading"
    \/ loops[k].pc \in {"sleeping", "resumed"} /\ LoopContinues

C28_AtMostOneActiveLoop == Cardinality({k \in LoopIds : ActiveLoop(k)}) <= 1

(***************************************************************************)
(* C29.  The last-seen text is set to every non-empty text that differs    *)
(* from it, whatever becomes of the text, and is left unchanged by empty   *)
(* reads and failed clipboard reads; a text read again while it is the     *)
(* last-seen text is not dispatched and touches nothing.                   *)
(***************************************************************************)
\* a poll that reads the last-seen text again, or fails to read, dispatches
\* nothing, makes no call and leaves the disk as it was
NothingRetried ==
    (tick'.read = "error" \/ tick'.text = lastClipboardContent)
       => /\ ~tick'.dispatched
          /\ ops' = << >>
          /\ fs' = fs /\ dirs' = dirs
          /\ lastClipboardContent' = lastClipboardContent

C29_RemembersEveryNonEmptyText ==
    [][ polls' # polls
        => /\ (tick'.read = "text" /\ tick'.text # EmptyStr
                  /\ tick'.text # lastClipboardContent)
                 => lastClipboardContent' = tick'.text
           /\ (tick'.read = "text" /\ tick'.text = EmptyStr)
                 => lastClipboardContent' = lastClipboardContent
           /\ NothingRetried ]_vars

(***************************************************************************)
(* C29, amended.  The last-seen text is set to every text that differs     *)
(* from it and holds a character that is not whitespace, whatever becomes  *)
(* of the text, and is left unchanged by empty reads, reads of whitespace  *)
(* only and failed clipboard reads; a text read again while it is the      *)
(* last-seen text is not dispatched and touches nothing.                   *)
(***************************************************************************)
C29_RemembersEveryNonBlankText ==
    [][ polls' # polls
        => /\ (tick'.read = "text" /\ ~OnlyWhitespace(tick'.text)
                  /\ tick'.text # lastClipboardContent)
                 => lastClipboardContent' = tick'.text
           /\ (tick'.read = "text" /\ OnlyWhitespace(tick'.text))
                 => lastClipboardContent' = lastClipboardContent
           /\ NothingRetried ]_vars

\* the first poll dispatched a payload and a call of its edit failed; the
\* second poll has read the same text again and made no call
C29_Witness ==
    /\ polls = 2
    /\ tick.read = "text"
    /\ ~OnlyWhitespace(tick.text)
    /\ tick.text = lastClipboardContent
    /\ ~tick.dispatched
    /\ pollFailed
    /\ ops = << >>

(***************************************************************************)
(* C30.  A dispatched text that holds all three delimiter tokens never     *)
(* causes a whole-file overwrite, the creation of a file or the creation   *)
(* of a directory: the only write its poll can make is the search-replaced *)
(* content written to the target, which existed and held the search text;  *)
(* when the target does not exist nothing is created.                      *)
(***************************************************************************)
HoldsAllTokens(text) ==
    /\ Occurs(text, SEARCH_TOKEN)
    /\ Occurs(text, SEPARATOR_TOKEN)
    /\ Occurs(text, REPLACE_TOKEN)

\* the call writes the target, which exists on the disk and holds the search text
WritesFoundTarget(call, t, files) ==
    /\ call.file = t.target
    /\ t.target \in DOMAIN files
    /\ Occurs(files[t.target], t.search)

C30_ThreeTokensNeverCreate ==
    [][ (polls' # polls /\ tick'.dispatched /\ HoldsAllTokens(tick'.text))
        => /\ tick'.kind # "wholefile"
           /\ dirs' = dirs
           /\ DOMAIN fs' = DOMAIN fs
           /\ \A i \in DOMAIN ops' :
                 /\ ops'[i].op # "mkdir"
                 /\ ops'[i].op = "write" => WritesFoundTarget(ops'[i], tick', fs)
           /\ \A f \in DOMAIN fs :
                 fs'[f] # fs[f]
                    => /\ f = tick'.target
                       /\ Occurs(fs[f], tick'.search)
                       /\ fs'[f] = StringReplace(fs[f], tick'.search, tick'.replace) ]_vars

\* a poll has dispatched a text with the three tokens whose target does not
\* exist: the read failed, and neither the file nor a directory was created
C30_Witness ==
    /\ polls = 1
    /\ tick.dispatched /\ HoldsAllTokens(tick.text)
    /\ tick.kind = "searchreplace"
    /\ tick.target \notin DOMAIN fs
    /\ ops # << >> /\ ops[1].op = "read" /\ ~ops[1].ok
    /\ Len(ops) = 1
    /\ fs = InitialDisk.fs /\ dirs = InitialDisk.dirs

====
